---- MODULE Spec2Model ----
(***************************************************************************)
(* Model of the Ceres driver of bundle_adjust (asp/Tools/bundle_adjust.cc): *)
(* do_ba_ceres, do_ba_ceres_one_pass, update_outliers, remove_outliers,     *)
(* compute_residuals, write_residual_logs and the solver sizing.            *)
(*                                                                          *)
(* Doubles are modelled by integers.  A mean residual is kept as the pair   *)
(* (sum of |ex|+|ey| over the observations, number of observations), so     *)
(* that "mean > e" is the exact comparison  sum > 2*e*count.                *)
(* The solver (ceres::Solve, Problem::Evaluate) is an external library: its *)
(* results are nondeterministic choices from small sets.                    *)
(***************************************************************************)
EXTENDS Integers, Sequences, FiniteSets, TLC

\* ------------------------------------------------------------------ bounds
NumCameras == 2
MaxPoints == 2
MaxPasses == 3
MaxRefPoints == 1
NumDistortionParams == 1
MaxSolverCameras == 7100
MaxAlignCameras == 3
MaxAlignGcps == 3

\* ------------------------------------------------- constants of the program
camera_params_n == 6
point_params_n == 3
PIXEL_SIZE == 2
focal_length_params_n == 1
optical_center_params_n == 2

\* Values the inputs and the external results are drawn from.
ResVals == {0, -4}
BracketVals == {0, 5}
Deltas == {0, 1}
ScaleVals == {1, 2}
MinMatchesVals == {0, MaxPoints}
\* max_pix1 and max_pix2 of remove_outliers_params; the runs of more than two
\* passes take the first pair only.
ErrPairs == {<<2, 3>>, <<3, 2>>}
ErrPairsOf(passes) == IF passes <= 2 THEN ErrPairs ELSE {<<2, 3>>}

VARIABLES
  num_cameras,          \* ba_model.num_cameras()
  cnet,                 \* control network: sequence of control points
  opt,                  \* Options
  pc,                   \* position in do_ba_ceres / do_ba_ceres_one_pass
  err,                  \* the exception that ended the run, "" if none
  pass,                 \* loop variable of do_ba_ceres
  cameras_vec, points_vec, intrinsics_vec,
  orig_cameras_vec, orig_points_vec, orig_intrinsics_vec,
  outlier_xyz,
  scaled_intrinsics,    \* local of do_ba_ceres_one_pass
  problem,              \* ceres::Problem of the current pass
  cam_residual_counts, num_gcp_residuals, reference_vec,
  num_new_outliers,
  residual_log,         \* what the last write_residual_logs read
  match_files,          \* contents of the match file of every image pair
  solver_options,       \* ceres::Solver::Options chosen by the last solve
  model_cams,           \* parameters held by the camera models (set_cam_params)
  hist,                 \* history: calls and per-pass outlier sets
  main,                 \* state of main() before the adjustment is run
  upd                   \* locals of the update_outliers call in progress

vars == <<num_cameras, cnet, opt, pc, err, pass, cameras_vec, points_vec,
          intrinsics_vec, orig_cameras_vec, orig_points_vec,
          orig_intrinsics_vec, outlier_xyz, scaled_intrinsics, problem,
          cam_residual_counts, num_gcp_residuals, reference_vec,
          num_new_outliers, residual_log, match_files, solver_options,
          model_cams, hist, main, upd>>

\* ----------------------------------------------------------------- helpers
Min(a, b) == IF a < b THEN a ELSE b
Max(a, b) == IF a > b THEN a ELSE b
Abs(x) == IF x < 0 THEN -x ELSE x

RECURSIVE SeqSum(_)
SeqSum(s) == IF s = <<>> THEN 0 ELSE Head(s) + SeqSum(Tail(s))

RECURSIVE Flatten(_)
Flatten(ss) == IF ss = <<>> THEN <<>> ELSE Head(ss) \o Flatten(Tail(ss))

\* n copies of x
Repeat(n, x) == [i \in 1..n |-> x]

Cameras == 0..(num_cameras - 1)
num_points == Len(cnet)
Points == 0..(num_points - 1)
\* ba_model.num_intrinsic_params(): those of BAPinholeModel; the
\* BundleAdjustmentModel of a run without create_pinhole has none.
num_intrinsic_params ==
  IF opt.create_pinhole
    THEN focal_length_params_n + optical_center_params_n + NumDistortionParams
    ELSE 0

IsGcp(ipt) == cnet[ipt + 1].type = "gcp"

\* The pixel of the measure of point ipt in image icam, and the pixel of a
\* default-constructed InterestPoint.
Pix(ipt, icam) == <<ipt, icam>>
ZeroPix == <<-1, -1>>
NoPix == <<-2, -2>>

\* CameraRelationNetwork::read_controlnetwork: the features of camera icam,
\* in control point order.
crn(icam) ==
  SelectSeq([i \in 1..num_points |-> i - 1],
            LAMBDA ipt : icam \in cnet[ipt + 1].measures)

\* crn.size(): read_controlnetwork gives the network one node per image up
\* to the highest image a measure names.
crn_size ==
  LET MeasuredImages == UNION {cnet[i].measures : i \in 1..Len(cnet)}
  IN IF MeasuredImages = {} THEN 0
     ELSE 1 + CHOOSE c \in MeasuredImages : \A d \in MeasuredImages : d <= c

\* The double loop "for icam, for fiter in crn[icam]" as one sequence.
ObsOfCamera(icam) ==
  [k \in 1..Len(crn(icam)) |-> [icam |-> icam, ipt |-> crn(icam)[k]]]
ObsSeq == Flatten([c \in 1..num_cameras |-> ObsOfCamera(c - 1)])

\* ------------------------------------------------- parameter blocks (ceres)
CamBlock(icam) == [b |-> "camera", i |-> icam]
PointBlock(ipt) == [b |-> "point", i |-> ipt]
\* scaled_intrinsics, scaled_intrinsics + nf, scaled_intrinsics + nf + nc
IntrBlock(j) == [b |-> "intr", i |-> j]

\* The indices (1-based) of the scaled intrinsics that block j covers.
IntrBlockIndices(j) ==
  CASE j = 0 -> 1..focal_length_params_n
    [] j = 1 -> (focal_length_params_n + 1)..
                (focal_length_params_n + optical_center_params_n)
    [] OTHER -> (focal_length_params_n + optical_center_params_n + 1)..
                num_intrinsic_params

\* Sizes of the residual blocks made by the cost functors
\* (BaReprojectionError, BaPinholeError, XYZError, LLHError, CamError,
\* RotTransError, BaDispXyzError).
ResidualSize(kind) ==
  CASE kind = "reproj"    -> PIXEL_SIZE
    [] kind = "gcp"       -> point_params_n
    [] kind = "cam_prior" -> camera_params_n
    [] kind = "rot_trans" -> camera_params_n
    [] kind = "terrain"   -> PIXEL_SIZE

\* The loss of the reprojection and terrain residuals; "throw" stands for
\* vw_throw(ArgumentErr() << "Unknown cost function: ...").
get_loss_function(cost_function) ==
  IF cost_function = "l2" THEN "NULL"
  ELSE IF cost_function = "huber" THEN "HuberLoss"
  ELSE IF cost_function = "cauchy" THEN "CauchyLoss"
  ELSE IF cost_function = "l1" THEN "SoftLOneLoss"
  ELSE "throw"

LossOfRun(kind) == get_loss_function(opt.cost_function)

\* The loss handed to AddResidualBlock: get_loss_function(opt) for the
\* reprojection and terrain residuals, "new ceres::TrivialLoss()" for the
\* GCP anchors and the camera priors.
LossOf(kind) ==
  IF kind \in {"reproj", "terrain"}
    THEN get_loss_function(opt.cost_function)
    ELSE "TrivialLoss"

Block(kind, icam, ipt) ==
  [kind |-> kind, icam |-> icam, ipt |-> ipt, loss |-> LossOf(kind)]

EmptyProblem == [blocks |-> <<>>, params |-> {}, constant |-> {}, count_map |-> <<>>,
                 pixel_sigma |-> <<>>]

\* problem.AddResidualBlock(cost, loss, parameter blocks...)
AddResidualBlock(p, blk, params) ==
  [p EXCEPT !.blocks = Append(@, blk), !.params = @ \cup params]

\* problem.SetParameterBlockConstant(block)
SetParameterBlockConstant(p, pb) == [p EXCEPT !.constant = @ \cup {pb}]

\* Problem::Evaluate: the residual vector, block after block in the order of
\* the calls of AddResidualBlock.
BlockResiduals(n) ==
  [q \in 1..ResidualSize(problem.blocks[n].kind) |->
     [n |-> n, kind |-> problem.blocks[n].kind, icam |-> problem.blocks[n].icam,
      ipt |-> problem.blocks[n].ipt, comp |-> q - 1]]
Evaluate == Flatten([n \in 1..Len(problem.blocks) |-> BlockResiduals(n)])

\* ------------------------------------------- residual graph construction
\* add_residual_block<BAPinholeModel>: the parameter blocks of a reprojection
\* residual, and the intrinsic blocks it marks constant.
FloatedIntrBlocks ==
  IF opt.solve_intrinsics
    THEN {IntrBlock(0), IntrBlock(1)} \cup
         (IF NumDistortionParams = 0 THEN {} ELSE {IntrBlock(2)})
    ELSE {}

ConstantIntrBlocksButCenter ==
  IF opt.solve_intrinsics /\ opt.intrinsics_to_float # {}
    THEN (IF "focal_length" \notin opt.intrinsics_to_float
            THEN {IntrBlock(0)} ELSE {}) \cup
         (IF "distortion_params" \notin opt.intrinsics_to_float
               /\ NumDistortionParams > 0
            THEN {IntrBlock(2)} ELSE {})
    ELSE {}

ConstantIntrBlocks ==
  IF opt.solve_intrinsics /\ opt.intrinsics_to_float # {}
    THEN (IF "focal_length" \notin opt.intrinsics_to_float
            THEN {IntrBlock(0)} ELSE {}) \cup
         (IF "optical_center" \notin opt.intrinsics_to_float
            THEN {IntrBlock(1)} ELSE {}) \cup
         (IF "distortion_params" \notin opt.intrinsics_to_float
               /\ NumDistortionParams > 0
            THEN {IntrBlock(2)} ELSE {})
    ELSE {}

\* p.pixel_sigma is the m_pixel_sigma of the cost functor of every
\* reprojection block.
add_residual_block(p, icam, ipt, sigma) ==
  LET p1 == AddResidualBlock(p, Block("reproj", icam, ipt),
                             {CamBlock(icam), PointBlock(ipt)}
                               \cup FloatedIntrBlocks)
  IN [p1 EXCEPT !.constant = @ \cup ConstantIntrBlocks,
                !.pixel_sigma = [o \in DOMAIN @ \cup {<<icam, ipt>>} |->
                                   IF o = <<icam, ipt>> THEN sigma ELSE @[o]]]

\* The xyz a point gets from the DEM when the sample is valid and in range.
DemXyz(ipt) == [q \in 1..point_params_n |-> 100 + 10 * ipt + (q - 1)]

SetPoint(pts, ipt, xyz) ==
  [i \in 1..Len(pts) |->
     IF (i - 1) \div point_params_n = ipt
       THEN xyz[((i - 1) % point_params_n) + 1] ELSE pts[i]]

\* The graph under construction: the problem, the per-camera counts and the
\* points vector (that the heights-from-DEM step writes).
CountMapAll(obs) ==
  IF opt.overlap_exponent > 0
    THEN [ipt \in {obs[k].ipt : k \in 1..Len(obs)} |->
            Cardinality({k \in 1..Len(obs) : obs[k].ipt = ipt})]
    ELSE <<>>

\* "How many times an xyz point shows up in the problem": filled only when
\* overlap_exponent > 0, and only for the points that are not outliers; it
\* divides the pixel sigma of the observations of the point.
count_map(obs) ==
  IF opt.overlap_exponent > 0
    THEN [ipt \in {obs[k].ipt : k \in {j \in 1..Len(obs) :
                                        obs[j].ipt \notin outlier_xyz}} |->
            Cardinality({k \in 1..Len(obs) : obs[k].ipt = ipt})]
    ELSE <<>>

EmptyGraph(pts) ==
  [problem |-> [EmptyProblem EXCEPT !.count_map = count_map(ObsSeq)],
   counts  |-> [c \in Cameras |-> 0],
   ngcp    |-> 0,
   points  |-> pts]

\* One iteration of the loop over the observations of one camera
\* (the body of "for fiter in crn[icam]").
CountsOutliersToo(g, icam, ipt) ==
  [g EXCEPT !.counts[icam] = @ + 1]

SkipOutlier(g, icam, ipt) == g

FixCamera(g, icam) ==
  IF icam \in opt.fixed_cameras_indices
    THEN [g EXCEPT !.problem = SetParameterBlockConstant(@, CamBlock(icam))]
    ELSE g

HeightFromDemAlways(g, ipt, dem) ==
  IF opt.heights_from_dem /\ ~IsGcp(ipt)
    THEN [g EXCEPT
            !.points  = SetPoint(@, ipt, DemXyz(ipt)),
            !.problem = SetParameterBlockConstant(@, PointBlock(ipt))]
    ELSE g

HeightFromDem(g, ipt, dem) ==
  IF opt.heights_from_dem /\ ~IsGcp(ipt)
    THEN [g EXCEPT
            !.points  = IF dem[ipt] THEN SetPoint(@, ipt, DemXyz(ipt)) ELSE @,
            !.problem = SetParameterBlockConstant(@, PointBlock(ipt))]
    ELSE g

\* Vector2 pixel_sigma = (**fiter).m_scale: opt.nan_scale holds the
\* observations whose scale has a NaN component.
NaN == -1
m_scale(icam, ipt) ==
  IF <<icam, ipt>> \in opt.nan_scale THEN <<NaN, 2>> ELSE <<2, 2>>

\* pixel_sigma != pixel_sigma
IsNanVector(v) == \E q \in 1..Len(v) : v[q] = NaN

KeepNan(v) == v

\* if (pixel_sigma != pixel_sigma) pixel_sigma = Vector2(1, 1);
NanToOne(v) == IF IsNanVector(v) THEN <<1, 1>> ELSE v

RECURSIVE Pow(_, _)
Pow(b, e) == IF e = 0 THEN 1 ELSE b * Pow(b, e - 1)

\* if (p > 0 && count_map.find(point) != count_map.end() && count_map[point] > 1)
\*   pixel_sigma /= pow(count_map[point] - 1.0, p);
\* A sigma is [val, div]: the vector and the divisors applied to it.
OverlapWeighted(s, cm, ipt) ==
  IF opt.overlap_exponent > 0 /\ ipt \in DOMAIN cm /\ cm[ipt] > 1
    THEN [s EXCEPT !.div = Append(@, Pow(cm[ipt] - 1, opt.overlap_exponent))]
    ELSE s

pixel_sigma(cm, icam, ipt) ==
  OverlapWeighted([val |-> NanToOne(m_scale(icam, ipt)), div |-> <<>>], cm, ipt)

AddObservation(g, icam, ipt, dem) ==
  IF ipt \in outlier_xyz
    THEN SkipOutlier(g, icam, ipt)
    ELSE LET g1 == [g EXCEPT !.problem =
                      add_residual_block(@, icam, ipt,
                                         pixel_sigma(@.count_map, icam, ipt))]
             g2 == FixCamera(g1, icam)
             g3 == HeightFromDem(g2, ipt, dem)
         IN [g3 EXCEPT !.counts[icam] = @ + 1]

RECURSIVE AddReprojection(_, _, _, _)
AddReprojection(g, obs, k, dem) ==
  IF k > Len(obs) THEN g
  ELSE AddReprojection(AddObservation(g, obs[k].icam, obs[k].ipt, dem),
                       obs, k + 1, dem)

\* Ground control points: one anchor block per non-outlier GCP.
RECURSIVE AddGcp(_, _)
AddGcp(g, ipt) ==
  IF ipt >= num_points THEN g
  ELSE IF ~IsGcp(ipt) \/ ipt \in outlier_xyz THEN AddGcp(g, ipt + 1)
  ELSE LET p1 == AddResidualBlock(g.problem, Block("gcp", -1, ipt),
                                  {PointBlock(ipt)})
           p2 == IF opt.fix_gcp_xyz
                   THEN SetParameterBlockConstant(p1, PointBlock(ipt)) ELSE p1
       IN AddGcp([g EXCEPT !.problem = p2, !.ngcp = @ + 1], ipt + 1)

\* Camera priors and rotation/translation priors, one block per camera.
RECURSIVE AddPerCamera(_, _, _)
AddPerCamera(p, kind, icam) ==
  IF icam >= num_cameras THEN p
  ELSE AddPerCamera(AddResidualBlock(p, Block(kind, icam, -1), {CamBlock(icam)}),
                    kind, icam + 1)

CameraPriorOn == opt.camera_weight > 0

RotTransPriorOn == opt.rotation_weight > 0 \/ opt.translation_weight > 0

AddPriors(p) ==
  LET p1 == IF CameraPriorOn THEN AddPerCamera(p, "cam_prior", 0) ELSE p
  IN IF RotTransPriorOn THEN AddPerCamera(p1, "rot_trans", 0) ELSE p1

\* Disparity-terrain residuals.  The projections and the disparity samples
\* are results of the camera models and rasters: terr[col][k] names, for
\* reference point col and camera pair (2k, 2k+1), the first test of the
\* loop body that fails, or "ok".
PairOutcomes ==
  {"left_throw", "left_outside", "right_throw", "right_outside", "nan_left",
   "disp_out_of_raster", "invalid_disp", "right_pix_outside", "too_far", "ok"}
\* The reference points, the disparity rasters and the cameras a pass
\* starts from are inputs of the run, so the outcomes are the same in every
\* pass: opt.terrain_outcomes holds them.
TerrainInputs(n) ==
  [1..MaxRefPoints -> [0..((n \div 2) - 1) -> PairOutcomes]]

ResetGoodNever(icam, good) == good

\* if (icam%2 == 0) good_point = true;  "Reset this for every pair of images"
ResetGood(icam, good) == IF icam % 2 = 0 THEN TRUE ELSE good

\* t = [problem, refvec, good]: the loop over the cameras for one point.
RECURSIVE TerrainCameras(_, _, _, _)
TerrainCameras(t, col, icam, terr) ==
  IF icam >= num_cameras THEN t
  ELSE
    LET good0 == ResetGood(icam, t.good)
        o == terr[col][icam \div 2]
        side == IF icam % 2 = 0 THEN "left" ELSE "right"
    IN IF ~good0 THEN TerrainCameras([t EXCEPT !.good = good0], col, icam + 1, terr)
       ELSE IF (side = "left" /\ o \in {"left_throw", "left_outside"})
               \/ (side = "right" /\ o \in {"right_throw", "right_outside"})
         THEN TerrainCameras([t EXCEPT !.good = FALSE], col, icam + 1, terr)
       ELSE IF side = "left"
         THEN TerrainCameras([t EXCEPT !.good = good0], col, icam + 1, terr)
       ELSE IF o # "ok"
         THEN TerrainCameras([t EXCEPT !.good = good0], col, icam + 1, terr)
       ELSE TerrainCameras(
              [problem |-> AddResidualBlock(t.problem, Block("terrain", icam, col),
                             {CamBlock(icam - 1), CamBlock(icam)}
                               \cup FloatedIntrBlocks),
               refvec  |-> Append(t.refvec, col),
               good    |-> good0],
              col, icam + 1, terr)

RECURSIVE AddTerrain(_, _, _)
AddTerrain(t, col, terr) ==
  IF col > MaxRefPoints THEN t
  ELSE AddTerrain(TerrainCameras(t, col, 0, terr), col + 1, terr)

\* if (opt.create_pinhole && opt.reference_terrain != "")
TerrainOn == opt.create_pinhole /\ opt.reference_terrain

\* ------------------------------------------------------ compute_residuals
CameraWeightCounted == opt.camera_weight > 0
RotTransCounted == opt.rotation_weight > 0 \/ opt.translation_weight > 0

num_expected_residuals(counts, ngcp, refvec) ==
  ngcp * point_params_n
  + SeqSum([c \in 1..num_cameras |-> counts[c - 1] * PIXEL_SIZE])
  + (IF CameraWeightCounted THEN num_cameras * camera_params_n ELSE 0)
  + (IF RotTransCounted THEN num_cameras * camera_params_n ELSE 0)
  + Len(refvec) * PIXEL_SIZE

\* TRUE when compute_residuals throws "Expected N residuals but instead got M"
ResidualCountMismatch(counts, ngcp, refvec) ==
  num_expected_residuals(counts, ngcp, refvec) # Len(Evaluate)

\* ---------------------------------------------------- write_residual_logs
\* The reads of the residual vector, in the order write_residual_logs makes
\* them: which file the value goes to and which camera / GCP / reference
\* point the writer takes it to belong to.
LogEntry(file, owner) == [file |-> file, owner |-> owner]

PixelReads(counts) ==
  Flatten([c \in 1..num_cameras |->
             Repeat(2 * counts[c - 1], LogEntry("raw_pixels", c - 1))])

GcpReads(ngcp) ==
  Flatten([i \in 1..ngcp |-> Repeat(point_params_n, LogEntry("raw_gcp", i - 1))])

part_size == camera_params_n \div 2

CameraReadsOnePass ==
  Flatten([c \in 1..num_cameras |->
             Repeat(part_size, LogEntry("raw_cameras", c - 1))
               \o Repeat(part_size, LogEntry("raw_cameras", c - 1))])

num_log_passes ==
  (IF opt.camera_weight > 0 THEN 1 ELSE 0)
  + (IF opt.rotation_weight > 0 \/ opt.translation_weight > 0 THEN 1 ELSE 0)

LogReadsGcpFirst(counts, ngcp, refvec) ==
  GcpReads(ngcp) \o PixelReads(counts)
    \o Flatten(Repeat(num_log_passes, CameraReadsOnePass))
    \o Flatten([i \in 1..Len(refvec) |->
                  Repeat(PIXEL_SIZE, LogEntry("reference_terrain", i - 1))])

LogReads(counts, ngcp, refvec) ==
  PixelReads(counts) \o GcpReads(ngcp)
    \o Flatten(Repeat(num_log_passes, CameraReadsOnePass))
    \o Flatten([i \in 1..Len(refvec) |->
                  Repeat(PIXEL_SIZE, LogEntry("reference_terrain", i - 1))])

\* residuals[index]; a read past the end of the vector yields no residual
ReadResidual(res, index) ==
  IF index + 1 \in 1..Len(res) THEN res[index + 1] ELSE [kind |-> "out_of_range"]

write_residual_logs(counts, ngcp, refvec) ==
  LET res == Evaluate
      reads == LogReads(counts, ngcp, refvec)
  IN [reads |-> [k \in 1..Len(reads) |->
                   [file  |-> reads[k].file,
                    owner |-> reads[k].owner,
                    value |-> ReadResidual(res, k - 1)]],
      index |-> Len(reads),
      num_residuals |-> Len(res)]

NoLog == [reads |-> <<>>, index |-> 0, num_residuals |-> 0]

\* ------------------------------------------------------- update_outliers
\* The values of the evaluated residuals.  ex = ey in every reprojection
\* block: the larger value of ResVals when the point is in hi0 (block of the
\* first camera) or in hi1 (blocks of the other cameras), else the smaller;
\* hi1 is drawn inside hi0.
\* The other residuals have the value 1.
LowResidual == CHOOSE v \in ResVals : \A w \in ResVals : Abs(v) <= Abs(w)
HighResidual == CHOOSE v \in ResVals : \A w \in ResVals : Abs(v) >= Abs(w)

ResidualValues(res, hi0, hi1) ==
  [k \in 1..Len(res) |->
     IF res[k].kind = "reproj"
       THEN IF res[k].ipt \in (IF res[k].icam = 0 THEN hi0 ELSE hi1)
              THEN HighResidual ELSE LowResidual
       ELSE 1]

\* compute_mean_residuals_at_xyz: m = [index, sum, count]; sum[ipt] is the
\* sum of |ex| + |ey| over the observations of ipt (twice the sum of the
\* per-observation errors), count[ipt] the number of observations.
WalkSkipsNone(ipt) == FALSE

\* if (outlier_xyz.find(ipt) != outlier_xyz.end()) continue; // skip outliers
WalkSkips(ipt) == ipt \in outlier_xyz

\* reads lists, for every observation read, the residual_index it was read at.
RECURSIVE MeanResidualsWalk(_, _, _, _)
MeanResidualsWalk(m, obs, k, vals) ==
  IF k > Len(obs) THEN m
  ELSE LET ipt == obs[k].ipt IN
    IF WalkSkips(ipt) THEN MeanResidualsWalk(m, obs, k + 1, vals)
    ELSE LET errorX == IF m.index + 1 \in 1..Len(vals) THEN vals[m.index + 1] ELSE 0
             errorY == IF m.index + 2 \in 1..Len(vals) THEN vals[m.index + 2] ELSE 0
         IN MeanResidualsWalk(
              [index |-> m.index + PIXEL_SIZE,
               reads |-> Append(m.reads, [icam |-> obs[k].icam, ipt |-> ipt,
                                          residual_index |-> m.index]),
               sum   |-> [m.sum EXCEPT ![ipt] = @ + Abs(errorX) + Abs(errorY)],
               count |-> [m.count EXCEPT ![ipt] = @ + 1]],
              obs, k + 1, vals)

\* num_point_observations[i] = std::numeric_limits<double>::quiet_NaN():
\* the conversion of NaN to int is undefined; the builds leave 0 or INT_MIN.
NanAsInt == {0, -2147483647 - 1}

\* "Do the averaging": an outlier gets the mean NaN (m.nan) and the count
\* the conversion of NaN leaves; every other point the mean sum / count.
\* Without an outlier nothing is converted and nan_int is not read.
compute_mean_residuals_at_xyz(obs, vals, nan_int) ==
  LET m == MeanResidualsWalk([index |-> 0,
                              reads |-> <<>>,
                              sum   |-> [i \in Points |-> 0],
                              count |-> [i \in Points |-> 0]], obs, 1, vals)
  IN [index |-> m.index,
      reads |-> m.reads,
      sum   |-> m.sum,
      count |-> [i \in Points |-> IF i \in outlier_xyz THEN nan_int
                                  ELSE m.count[i]],
      nan   |-> Points \cap outlier_xyz]

\* mean_residuals[ipt] > e ; a point without observation has mean NaN
MeanAtLeast(m, ipt, e) ==
  ipt \notin m.nan /\ m.count[ipt] > 0 /\ m.sum[ipt] >= 2 * e * m.count[ipt]

MeanGreater(m, ipt, e) ==
  ipt \notin m.nan /\ m.count[ipt] > 0 /\ m.sum[ipt] > 2 * e * m.count[ipt]

\* e = std::min(std::max(e, max_pix1), max_pix2)
ClampBracket(e) ==
  Min(Max(e, opt.remove_outliers_params[3]), opt.remove_outliers_params[4])

NeverSkipped(ipt) == FALSE

\* "Skip gcp, those are never outliers no matter what."
SkipGcp(ipt) == IsGcp(ipt)

\* The points the second double loop of update_outliers inserts.
Flagged(obs, m, e) ==
  {ipt \in Points :
     /\ \E k \in 1..Len(obs) : obs[k].ipt = ipt
     /\ ipt \notin outlier_xyz
     /\ ~SkipGcp(ipt)
     /\ MeanGreater(m, ipt, e)}

OnlyFlagged(old, flagged) == flagged

\* std::set<int> new_outliers = outlier_xyz; ... new_outliers.insert(ipt)
NewOutliers(old, flagged) == old \cup flagged

\* ------------------------------------------------------- remove_outliers
\* The image pairs that have a match file (opt.match_files).
MatchPairs == {pr \in Cameras \X Cameras : pr[1] < pr[2]}

\* lookup[left] of the std::map built from the file as read: the right pixel
\* of the last entry whose left pixel is left, or NoPix when there is none.
RECURSIVE Lookup(_, _)
Lookup(file, left) ==
  IF file = <<>> THEN NoPix
  ELSE IF file[Len(file)][1] = left THEN file[Len(file)][2]
  ELSE Lookup(SubSeq(file, 1, Len(file) - 1), left)

\* asp::filter_ip_by_disparity: drops the matches whose disparity is outside
\* the bracket; which ones is decided by the pixel values (choice).
DispFilterChoices == {"keep_all", "drop_first"}
filter_ip_by_disparity(ips, choice) ==
  IF choice = "drop_first" /\ ips # <<>> THEN Tail(ips) ELSE ips

\* "Only add ip that were there originally":
\* !(lookup.find(left) == lookup.end() || lookup[left] != right)
InOriginal(orig, left, right) == Lookup(orig, left) = right

\* "ip::InterestPoint lip, rip;" is declared in the loop body and assigned
\* only by a measure of the image: without one its pixel is what the
\* default constructor leaves, the zero pixel or the pixel the storage held
\* (that of the same image of an earlier point).
StaleIps == {-1} \cup Points
DefaultPix(stale, icam) == IF stale = -1 THEN ZeroPix ELSE Pix(stale, icam)

\* The matches remove_outliers collects for the pair (left_cam, right_cam).
RECURSIVE CollectMatches(_, _, _, _, _)
CollectMatches(ipt, left_cam, right_cam, orig, stale) ==
  IF ipt >= num_points THEN <<>>
  ELSE
    LET rest == CollectMatches(ipt + 1, left_cam, right_cam, orig, stale)
        has_left == TRUE
        has_right == right_cam \in cnet[ipt + 1].measures
        lip == IF left_cam \in cnet[ipt + 1].measures
                 THEN Pix(ipt, left_cam) ELSE DefaultPix(stale, left_cam)
        rip == IF right_cam \in cnet[ipt + 1].measures
                 THEN Pix(ipt, right_cam) ELSE DefaultPix(stale, right_cam)
    IN IF IsGcp(ipt) THEN rest
       ELSE IF ~has_left \/ ~has_right THEN rest
       ELSE IF ipt \in outlier_xyz THEN rest
       ELSE IF ~InOriginal(orig, lip, rip) THEN rest
       ELSE <<(<<lip, rip>>)>> \o rest

KeepMatchFiles(files, choice, stale) == files

\* remove_outliers, when every read of a match file succeeds: what it writes
\* for each pair of opt.match_files.  RemoveOutliers applies it up to the
\* first file whose read throws.
remove_outliers(files, choice, stale) ==
  [pr \in MatchPairs |->
     filter_ip_by_disparity(CollectMatches(0, pr[1], pr[2], files[pr], stale),
                            choice)]

\* The match files as the matching step leaves them: the matches of every
\* tie point measured in both images of the pair.
RECURSIVE InitialMatches(_, _, _, _)
InitialMatches(net, ipt, l, r) ==
  IF ipt >= Len(net) THEN <<>>
  ELSE (IF net[ipt + 1].type = "tie" /\ {l, r} \subseteq net[ipt + 1].measures
          THEN <<(<<Pix(ipt, l), Pix(ipt, r)>>)>> ELSE <<>>)
       \o InitialMatches(net, ipt + 1, l, r)

\* ---------------------------------------------------------- solver sizing
DefaultSolverOptions ==
  [linear_solver_type |-> "SPARSE_SCHUR",
   preconditioner_type |-> "JACOBI",
   use_explicit_schur_complement |-> FALSE]

SolverOptionsInclusive(n) ==
  LET o1 == IF n < 100
              THEN [DefaultSolverOptions EXCEPT !.linear_solver_type = "DENSE_SCHUR"]
              ELSE DefaultSolverOptions
      o2 == IF n >= 3500
              THEN [o1 EXCEPT !.use_explicit_schur_complement = TRUE,
                              !.linear_solver_type = "ITERATIVE_SCHUR",
                              !.preconditioner_type = "SCHUR_JACOBI"]
              ELSE o1
  IN IF n > 7000 THEN [o2 EXCEPT !.use_explicit_schur_complement = FALSE] ELSE o2

SolverOptions(n) ==
  LET o1 == IF n < 100
              THEN [DefaultSolverOptions EXCEPT !.linear_solver_type = "DENSE_SCHUR"]
              ELSE DefaultSolverOptions
      o2 == IF n > 3500
              THEN [o1 EXCEPT !.use_explicit_schur_complement = TRUE,
                              !.linear_solver_type = "ITERATIVE_SCHUR",
                              !.preconditioner_type = "SCHUR_JACOBI"]
              ELSE o1
  IN IF n > 7000 THEN [o2 EXCEPT !.use_explicit_schur_complement = FALSE] ELSE o2

\* ------------------------------------------------------------ initial state
\* Control points: a tie point or a GCP, with the cameras that measure it.
PointKinds ==
  { [type |-> "tie", measures |-> 0..(NumCameras - 1)],
    [type |-> "tie", measures |-> {0}],
    [type |-> "gcp", measures |-> 0..(NumCameras - 1)] }

RECURSIVE SeqsUpTo(_, _)
SeqsUpTo(S, n) ==
  IF n = 0 THEN {<<>>}
  ELSE LET shorter == SeqsUpTo(S, n - 1)
       IN shorter \cup {Append(q, x) : q \in {t \in shorter : Len(t) = n - 1}, x \in S}

Networks == SeqsUpTo(PointKinds, MaxPoints) \ {<<>>}

\* init_cams: the camera adjustments start as 0; the shared intrinsics come
\* from the first camera.
InitCamerasVec(n) == [i \in 1..(n * camera_params_n) |-> 0]
InitIntrinsicsVec == [i \in 1..num_intrinsic_params |-> i + 2]
\* points_vec[ipt*num_point_params + q] = cnet[ipt].position()[q]
InitPointsVec(net) ==
  [i \in 1..(Len(net) * point_params_n) |->
     10 * ((i - 1) \div point_params_n) + ((i - 1) % point_params_n)]

\* main() before the adjustment: the image pairs still to match, the pairs
\* matched and those whose matching failed, the camera positions read from
\* the position file, the position triangulate_control_point gives for every
\* point, the positions of the points in the network, the camera centers
\* (0 stands for Vector3(0,0,0)), and the calls of apply_rigid_transform.
NoMain == [pairs |-> <<>>, num_pairs_matched |-> 0, failed |-> {},
           unwritten |-> {},
           estimated_camera_gcc |-> <<>>, triangulated |-> <<>>,
           position |-> <<>>, camera_center |-> <<>>, transforms |-> 0,
           pinhole |-> <<>>, transfer |-> <<>>, dem_ip |-> <<>>,
           map_matches |-> <<>>, gcp_matches |-> <<>>, gcp_file |-> <<>>,
           adjuster |-> <<>>]

\* No update_outliers call is in progress.
NoUpd == [sum |-> <<>>, count |-> <<>>, e |-> 0, outlier_xyz |-> {},
          reads |-> <<>>]

NoHist == [update_calls |-> 0, remove_calls |-> 0, after_pass |-> <<>>,
           set_cam_params |-> 0,
          align_calls |-> <<>>]

OptionsOf(passes, minm, cw, rt, errs, terrain, fixed, fixgcp, dem, solve) ==
  [num_ba_passes |-> passes, min_matches |-> minm,
   camera_weight |-> cw, rotation_weight |-> rt[1], translation_weight |-> rt[2],
   remove_outliers_params |-> <<75, 3, errs[1], errs[2]>>,
   reference_terrain |-> terrain, fixed_cameras_indices |-> fixed,
   fix_gcp_xyz |-> fixgcp, heights_from_dem |-> dem,
   solve_intrinsics |-> solve, intrinsics_to_float |-> {},
   create_pinhole |-> TRUE, camera_position_file |-> FALSE,
   gcp_files |-> FALSE, cost_function |-> "cauchy", overlap_exponent |-> 0,
   dem_valid |-> {}, terrain_outcomes |-> <<>>, max_disp_error |-> 1,
   mapprojected_data |-> FALSE, gcp_data |-> FALSE, nan_scale |-> {},
   max_iterations |-> 0, ba_type |-> "ceres"]

\* A match the file of a pair holds beside those of the control network: the
\* right pixel of a tie point the network measures in the right image only,
\* matched to the zero pixel (a = -1) or to the left pixel of point a. The
\* network and the files differ this way when the network is read from
\* --cnet-file or when build_control_network splits a track.
StrayMatches(n, net) ==
  {<<>>} \cup
  {st \in {q \in (0..(n - 1)) \X (0..(n - 1)) : q[1] < q[2]}
            \X (-1..(Len(net) - 1)) \X (0..(Len(net) - 1)) :
     /\ net[st[3] + 1].type = "tie"
     /\ st[1][2] \in net[st[3] + 1].measures
     /\ st[1][1] \notin net[st[3] + 1].measures}

StrayOf(stray, pr) ==
  IF stray # <<>> /\ stray[1] = pr
    THEN <<(<<(IF stray[2] = -1 THEN ZeroPix ELSE Pix(stray[2], pr[1])),
              Pix(stray[3], pr[2])>>)>>
    ELSE <<>>

\* The state at the entry of do_ba_ceres, after the vectors are filled in;
\* the match files hold the matches of the points of matched and the match
\* of stray.
InitAtMain(n, net, o, at, matched, stray, m) ==
  /\ num_cameras = n
  /\ cnet = net
  /\ opt = o
  /\ pc = at
  /\ err = ""
  /\ pass = 0
  /\ cameras_vec = InitCamerasVec(n)
  /\ intrinsics_vec = InitIntrinsicsVec
  /\ points_vec = InitPointsVec(net)
  /\ orig_cameras_vec = InitCamerasVec(n)
  /\ orig_points_vec = IF o.num_ba_passes > 1 THEN InitPointsVec(net) ELSE <<>>
  /\ orig_intrinsics_vec = IF o.num_ba_passes > 1 THEN InitIntrinsicsVec ELSE <<>>
  /\ outlier_xyz = {}
  /\ scaled_intrinsics = [i \in 1..num_intrinsic_params |-> 1]
  /\ problem = EmptyProblem
  /\ cam_residual_counts = [c \in 0..(n - 1) |-> 0]
  /\ num_gcp_residuals = 0
  /\ reference_vec = <<>>
  /\ num_new_outliers = 0
  /\ residual_log = NoLog
  /\ match_files = [pr \in {q \in (0..(n - 1)) \X (0..(n - 1)) : q[1] < q[2]} |->
                      SelectSeq(InitialMatches(net, 0, pr[1], pr[2]),
                                LAMBDA mt : mt[1][1] \in matched)
                      \o StrayOf(stray, pr)]
  /\ solver_options = DefaultSolverOptions
  /\ model_cams = [c \in 0..(n - 1) |-> <<>>]
  /\ hist = NoHist
  /\ main = m
  /\ upd = NoUpd

\* The same at the entry of do_ba_ceres, where main() has no part left.
InitAtWith(n, net, o, at, matched, stray) ==
  InitAtMain(n, net, o, at, matched, stray, NoMain)

\* The same, the match files being those the matching step leaves.
InitAt(n, net, o, at) ==
  InitAtWith(n, net, o, at, 0..(Len(net) - 1), <<>>)

InitWith(n, net, o) == InitAt(n, net, o, "start")

\* Runs over every network, number of passes, min_matches and thresholds.
Init ==
  \E net \in Networks, passes \in 0..MaxPasses, minm \in MinMatchesVals :
    \E errs \in ErrPairsOf(passes) :
      InitWith(NumCameras, net,
               OptionsOf(passes, minm, 1, <<0, 0>>, errs, FALSE, {}, FALSE, FALSE, TRUE))

\* Runs with a reference terrain: an odd and an even number of cameras (two
\* pairs), every outcome of every pair, --max-disp-error left at its default
\* (-1) or given.
TerrainCameraCounts == {NumCameras + 1, NumCameras + 2}

InitTerrain ==
  \E n \in TerrainCameraCounts, mde \in {-1, 1} :
    \E terr \in TerrainInputs(n) :
      InitWith(n, <<[type |-> "tie", measures |-> 0..(n - 1)]>>,
               [OptionsOf(1, 0, 1, <<0, 0>>, <<2, 3>>, TRUE, {}, FALSE, FALSE, TRUE)
                  EXCEPT !.terrain_outcomes = terr, !.max_disp_error = mde])

\* Runs over every network and every combination of priors and terrain.
InitGraph ==
  \E net \in Networks, passes \in 1..2, cw \in {0, 1},
     rt \in {<<0, 0>>, <<0, 1>>, <<1, 0>>}, terrain \in BOOLEAN :
    \E terr \in (IF terrain THEN TerrainInputs(NumCameras) ELSE {<<>>}) :
      InitWith(NumCameras, net,
               [OptionsOf(passes, 0, cw, rt, <<2, 3>>, terrain, {}, FALSE, FALSE, TRUE)
                  EXCEPT !.terrain_outcomes = terr])

\* ------------------------------------------------------------------ actions
\* do_ba_ceres: "if (opt.num_ba_passes <= 0) vw_throw(ArgumentErr...)" and the
\* first test of the loop condition.
NoPassesNegative == opt.num_ba_passes < 0

\* if (opt.num_ba_passes <= 0)
NoPasses == opt.num_ba_passes <= 0

Start ==
  /\ pc = "start"
  /\ IF NoPasses
       THEN pc' = "arg_error" /\ err' = "no_passes"
       ELSE pc' = "pass_entry" /\ err' = err
  /\ UNCHANGED <<upd, main, num_cameras, cnet, opt, pass, cameras_vec, points_vec,
                 intrinsics_vec, orig_cameras_vec, orig_points_vec,
                 orig_intrinsics_vec, outlier_xyz, scaled_intrinsics, problem,
                 cam_residual_counts, num_gcp_residuals, reference_vec,
                 num_new_outliers, residual_log, match_files, solver_options,
                 model_cams, hist>>

KeepVec(cur, orig) == cur

\* for (i < cameras_vec.size()) cameras_vec[i] = orig_cameras_vec[i];
RestoreCameras(cur, orig) == [i \in 1..Len(cur) |-> orig[i]]
\* for (i < points_vec.size()) points_vec[i] = orig_points_vec[i];
RestorePoints(cur, orig) == [i \in 1..Len(cur) |-> orig[i]]
\* for (i < intrinsics_vec.size()) intrinsics_vec[i] = orig_intrinsics_vec[i];
RestoreIntrinsics(cur, orig) == [i \in 1..Len(cur) |-> orig[i]]

\* The top of the loop body: go back to the original inputs.
PassEntry ==
  /\ pc = "pass_entry"
  /\ IF opt.num_ba_passes > 1
       THEN /\ cameras_vec' = RestoreCameras(cameras_vec, orig_cameras_vec)
            /\ points_vec' = RestorePoints(points_vec, orig_points_vec)
            /\ intrinsics_vec' = RestoreIntrinsics(intrinsics_vec, orig_intrinsics_vec)
       ELSE UNCHANGED <<cameras_vec, points_vec, intrinsics_vec>>
  /\ pc' = "build"
  /\ UNCHANGED <<upd, main, num_cameras, cnet, opt, err, pass, orig_cameras_vec,
                 orig_points_vec, orig_intrinsics_vec, outlier_xyz,
                 scaled_intrinsics, problem, cam_residual_counts,
                 num_gcp_residuals, reference_vec, num_new_outliers,
                 residual_log, match_files, solver_options, model_cams, hist>>

first_pass == pass = 0

LastPassOffByOne == pass = opt.num_ba_passes

\* bool last_pass = (pass == opt.num_ba_passes - 1);
last_pass == pass = opt.num_ba_passes - 1

\* The DEM is an input of the run: opt.dem_valid holds the points whose
\* pixel lies inside the raster and whose sample is valid.
DemOracles ==
  IF opt.heights_from_dem
    THEN {[i \in Points |-> i \in opt.dem_valid]}
    ELSE {[i \in Points |-> FALSE]}

TerrainChoices ==
  IF TerrainOn /\ num_cameras % 2 = 0
    THEN {opt.terrain_outcomes}
    ELSE {[col \in 1..MaxRefPoints |->
             [k \in 0..((num_cameras \div 2) - 1) |-> "left_throw"]]}

UnknownLoss == get_loss_function(opt.cost_function) = "throw"

\* get_loss_function is called for every observation of a point that is not
\* an outlier.
NeedsLoss(obs) == \E k \in 1..Len(obs) : obs[k].ipt \notin outlier_xyz

\* if (num_cameras != static_cast<int>(crn.size())) vw_throw(LogicErr ...)
CrnSizeMismatch == num_cameras # crn_size

\* do_ba_ceres_one_pass up to the end of the graph construction.
BuildGraph ==
  /\ pc = "build"
  /\ \E dem \in DemOracles, terr \in TerrainChoices :
       LET g1 == AddReprojection(EmptyGraph(points_vec), ObsSeq, 1, dem)
           g2 == AddGcp(g1, 0)
           p3 == AddPriors(g2.problem)
           t  == IF TerrainOn
                   THEN AddTerrain([problem |-> p3, refvec |-> <<>>, good |-> TRUE],
                                   1, terr)
                   ELSE [problem |-> p3, refvec |-> <<>>, good |-> TRUE]
       IN IF CrnSizeMismatch
            THEN /\ pc' = "logic_error"
                 /\ err' = "crn_size"
                 /\ UNCHANGED <<points_vec, scaled_intrinsics, problem,
                                cam_residual_counts, num_gcp_residuals,
                                reference_vec>>
          ELSE IF UnknownLoss /\ NeedsLoss(ObsSeq)
            THEN /\ pc' = "arg_error"
                 /\ err' = "unknown_cost_function"
                 /\ UNCHANGED <<points_vec, scaled_intrinsics, problem,
                                cam_residual_counts, num_gcp_residuals,
                                reference_vec>>
            ELSE
          /\ points_vec' = g2.points
          /\ scaled_intrinsics' = [i \in 1..num_intrinsic_params |-> 1]
          /\ IF TerrainOn /\ num_cameras % 2 # 0
               THEN /\ pc' = "arg_error"
                    /\ err' = "odd_cameras"
                    /\ UNCHANGED <<problem, cam_residual_counts,
                                   num_gcp_residuals, reference_vec>>
               ELSE IF TerrainOn /\ opt.max_disp_error <= 0
               THEN /\ pc' = "arg_error"
                    /\ err' = "max_disp_error"
                    /\ UNCHANGED <<problem, cam_residual_counts,
                                   num_gcp_residuals, reference_vec>>
               ELSE IF UnknownLoss /\ t.refvec # <<>>
               THEN /\ pc' = "arg_error"
                    /\ err' = "unknown_cost_function"
                    /\ UNCHANGED <<problem, cam_residual_counts,
                                   num_gcp_residuals, reference_vec>>
               ELSE /\ pc' = IF first_pass THEN "initial_logs" ELSE "solve"
                    /\ err' = err
                    /\ problem' = t.problem
                    /\ cam_residual_counts' = g2.counts
                    /\ num_gcp_residuals' = g2.ngcp
                    /\ reference_vec' = t.refvec
  /\ UNCHANGED <<upd, main, num_cameras, cnet, opt, pass, cameras_vec, intrinsics_vec,
                 orig_cameras_vec, orig_points_vec, orig_intrinsics_vec,
                 outlier_xyz, num_new_outliers, residual_log, match_files,
                 solver_options, model_cams, hist>>

\* The two calls of write_residual_logs (with and without the loss function):
\* both evaluate the same problem and read the vector in the same way.
WriteLogs(next) ==
  IF ResidualCountMismatch(cam_residual_counts, num_gcp_residuals, reference_vec)
    THEN /\ pc' = "logic_error"
         /\ err' = "residual_count"
         /\ UNCHANGED residual_log
    ELSE LET log == write_residual_logs(cam_residual_counts, num_gcp_residuals,
                                        reference_vec)
         IN /\ residual_log' = log
            /\ IF log.index # log.num_residuals
                 THEN pc' = "logic_error" /\ err' = "log_index"
                 ELSE pc' = next /\ err' = err

\* "if (first_pass) { Writing initial condition files... }"
InitialLogs ==
  /\ pc = "initial_logs"
  /\ WriteLogs("solve")
  /\ UNCHANGED <<upd, main, num_cameras, cnet, opt, pass, cameras_vec, points_vec,
                 intrinsics_vec, orig_cameras_vec, orig_points_vec,
                 orig_intrinsics_vec, outlier_xyz, scaled_intrinsics, problem,
                 cam_residual_counts, num_gcp_residuals, reference_vec,
                 num_new_outliers, match_files, solver_options, model_cams,
                 hist>>

IsFree(pb) == pb \in problem.params /\ pb \notin problem.constant

\* intrinsics[intrIter] = intrinsics[intrIter] * scaled_intrinsics_ptr[intrIter]
MultiplyIntrinsics(intr, scaled) ==
  [i \in 1..Len(intr) |-> intr[i] * scaled[i]]

\* ceres::Solve: every free parameter block may move (by d); the scale of
\* every free intrinsic block becomes sc.  Then the intrinsics are
\* multiplied by the scales.
Solve ==
  /\ pc = "solve"
  /\ \E d \in Deltas, sc \in ScaleVals :
       LET scaled == [i \in 1..num_intrinsic_params |->
                        IF \E j \in 0..2 : i \in IntrBlockIndices(j) /\ IsFree(IntrBlock(j))
                          THEN sc ELSE scaled_intrinsics[i]]
       IN /\ cameras_vec' =
               [i \in 1..Len(cameras_vec) |->
                  IF IsFree(CamBlock((i - 1) \div camera_params_n))
                    THEN cameras_vec[i] + d ELSE cameras_vec[i]]
          /\ points_vec' =
               [i \in 1..Len(points_vec) |->
                  IF IsFree(PointBlock((i - 1) \div point_params_n))
                    THEN points_vec[i] + d ELSE points_vec[i]]
          /\ scaled_intrinsics' = scaled
          /\ intrinsics_vec' = MultiplyIntrinsics(intrinsics_vec, scaled)
  /\ solver_options' = SolverOptions(num_cameras)
  /\ pc' = "final_logs"
  /\ UNCHANGED <<upd, main, num_cameras, cnet, opt, err, pass, orig_cameras_vec,
                 orig_points_vec, orig_intrinsics_vec, outlier_xyz, problem,
                 cam_residual_counts, num_gcp_residuals, reference_vec,
                 num_new_outliers, residual_log, match_files, model_cams, hist>>

\* "Writing final condition log files..." up to "int num_new_outliers = 0;
\* if (!last_pass) ..."
FinalLogs ==
  /\ pc = "final_logs"
  /\ WriteLogs(IF last_pass THEN "loop_check" ELSE "update_outliers")
  /\ num_new_outliers' = 0
  /\ UNCHANGED <<upd, main, num_cameras, cnet, opt, pass, cameras_vec, points_vec,
                 intrinsics_vec, orig_cameras_vec, orig_points_vec,
                 orig_intrinsics_vec, outlier_xyz, scaled_intrinsics, problem,
                 cam_residual_counts, num_gcp_residuals, reference_vec,
                 match_files, solver_options, model_cams, hist>>

\* update_outliers, called when the pass is not the last one.
UpdateOutliers ==
  /\ pc = "update_outliers"
  /\ hist' = [hist EXCEPT !.update_calls = @ + 1]
  /\ IF ResidualCountMismatch(cam_residual_counts, num_gcp_residuals, reference_vec)
       THEN /\ pc' = "logic_error"
            /\ err' = "residual_count"
            /\ UNCHANGED <<outlier_xyz, num_new_outliers, upd>>
       ELSE LET obs == ObsSeq
                res == Evaluate
            IN \E hi0 \in SUBSET (Points \ outlier_xyz), e0 \in BracketVals :
               \E hi1 \in SUBSET hi0,
                  nan_int \in (IF outlier_xyz = {} THEN {0} ELSE NanAsInt) :
              LET m   == compute_mean_residuals_at_xyz(obs,
                           ResidualValues(res, hi0, hi1), nan_int)
                  e   == ClampBracket(e0)
                  new == NewOutliers(outlier_xyz, Flagged(obs, m, e))
                  n   == Cardinality(new) - Cardinality(outlier_xyz)
              IN /\ outlier_xyz' = new
                 /\ num_new_outliers' = n
                 /\ upd' = [sum |-> m.sum, count |-> m.count, e |-> e0,
                            outlier_xyz |-> outlier_xyz, reads |-> m.reads]
                 /\ pc' = IF opt.num_ba_passes > 1 /\ n > 0
                            THEN "remove_outliers" ELSE "loop_check"
                 /\ err' = err
  /\ UNCHANGED <<main, num_cameras, cnet, opt, pass, cameras_vec, points_vec,
                 intrinsics_vec, orig_cameras_vec, orig_points_vec,
                 orig_intrinsics_vec, scaled_intrinsics, problem,
                 cam_residual_counts, num_gcp_residuals, reference_vec,
                 residual_log, match_files, solver_options, model_cams>>

\* ip::read_binary_match_file(match_file, ...) in the loop of remove_outliers
\* over opt.match_files, for a file that main() registered but the matching
\* never wrote.  The function is library code: it either reads the file as
\* one with no match, or throws, and the exception leaves do_ba_ceres.
MatchFileReads == {"read", "throw"}

\* The order of the std::map opt.match_files, keyed by the pair of indices.
PairBefore(p, q) == p[1] < q[1] \/ (p[1] = q[1] /\ p[2] < q[2])

\* The first registered file, in the order of the map, that was never
\* written.
FirstUnwritten ==
  CHOOSE q \in main.unwritten :
    \A r \in main.unwritten : r = q \/ PairBefore(q, r)

\* "if (opt.num_ba_passes > 1 && num_new_outliers > 0) remove_outliers(...)":
\* the files remove_outliers writes, for the pixel values (choice) and the
\* storage of the loop (stale) of the run.
RemoveOutliers ==
  /\ pc = "remove_outliers"
  /\ \E written \in {remove_outliers(match_files, choice, stale) :
                        choice \in DispFilterChoices, stale \in StaleIps} :
     \E read \in (IF main.unwritten = {} THEN {"read"} ELSE MatchFileReads) :
       IF read = "throw"
         THEN /\ match_files' =
                   [pr \in MatchPairs |->
                      IF PairBefore(pr, FirstUnwritten)
                        THEN written[pr] ELSE match_files[pr]]
              /\ pc' = "io_error"
              /\ err' = "match_file_read"
         ELSE /\ match_files' = written
              /\ pc' = "loop_check"
              /\ err' = err
  /\ hist' = [hist EXCEPT !.remove_calls = @ + 1]
  /\ upd' = NoUpd
  /\ UNCHANGED <<main, num_cameras, cnet, opt, pass, cameras_vec, points_vec,
                 intrinsics_vec, orig_cameras_vec, orig_points_vec,
                 orig_intrinsics_vec, outlier_xyz, scaled_intrinsics, problem,
                 cam_residual_counts, num_gcp_residuals, reference_vec,
                 num_new_outliers, residual_log, solver_options, model_cams>>

NeverBreak == FALSE

\* if (!last_pass && num_new_outliers == 0) break;
BreakEarly == ~last_pass /\ num_new_outliers = 0

NeverTooFew(remaining) == FALSE

\* if (opt.num_ba_passes > 1 && num_points_remaining < opt.min_matches) throw
TooFewPoints(remaining) ==
  opt.num_ba_passes > 1 /\ remaining < opt.min_matches

\* The end of the loop body of do_ba_ceres, after do_ba_ceres_one_pass
\* returned, and the loop increment and test.
LoopCheck ==
  /\ pc = "loop_check"
  /\ hist' = [hist EXCEPT !.after_pass = Append(@, outlier_xyz)]
  /\ upd' = NoUpd
  /\ IF BreakEarly
       THEN pc' = "write_back" /\ UNCHANGED <<pass, err>>
       ELSE IF TooFewPoints(num_points - Cardinality(outlier_xyz))
         THEN pc' = "arg_error" /\ err' = "too_few_points" /\ UNCHANGED pass
         ELSE /\ pass' = pass + 1
              /\ pc' = IF pass + 1 < opt.num_ba_passes
                         THEN "pass_entry" ELSE "write_back"
              /\ err' = err
  /\ UNCHANGED <<main, num_cameras, cnet, opt, cameras_vec, points_vec,
                 intrinsics_vec, orig_cameras_vec, orig_points_vec,
                 orig_intrinsics_vec, outlier_xyz, scaled_intrinsics, problem,
                 cam_residual_counts, num_gcp_residuals, reference_vec,
                 num_new_outliers, residual_log, match_files, solver_options,
                 model_cams>>

ExtrinsicsOnly(cams, intr, icam) ==
  SubSeq(cams, icam * camera_params_n + 1, (icam + 1) * camera_params_n)

\* ba_model.concat_extrinsics_intrinsics(&cameras_vec[icam*num_camera_params],
\* intrinsics, concat): the intrinsics right after the extrinsics.
concat_extrinsics_intrinsics(cams, intr, icam) ==
  SubSeq(cams, icam * camera_params_n + 1, (icam + 1) * camera_params_n) \o intr

\* concat_extrinsics_intrinsics + set_cam_params for every camera
WriteBack ==
  /\ pc = "write_back"
  /\ model_cams' =
       [c \in Cameras |->
          concat_extrinsics_intrinsics(cameras_vec, intrinsics_vec, c)]
  /\ hist' = [hist EXCEPT !.set_cam_params = @ + num_cameras]
  /\ pc' = "done"
  /\ UNCHANGED <<upd, main, num_cameras, cnet, opt, err, pass, cameras_vec, points_vec,
                 intrinsics_vec, orig_cameras_vec, orig_points_vec,
                 orig_intrinsics_vec, outlier_xyz, scaled_intrinsics, problem,
                 cam_residual_counts, num_gcp_residuals, reference_vec,
                 num_new_outliers, residual_log, match_files, solver_options>>

Next ==
  \/ Start
  \/ PassEntry
  \/ BuildGraph
  \/ InitialLogs
  \/ Solve
  \/ FinalLogs
  \/ UpdateOutliers
  \/ RemoveOutliers
  \/ LoopCheck
  \/ WriteBack

Spec == Init /\ [][Next]_vars

SpecGraph == InitGraph /\ [][Next]_vars

\* The run up to the end of the graph construction of the first pass.
NextTerrain ==
  \/ Start
  \/ PassEntry
  \/ BuildGraph

SpecTerrain == InitTerrain /\ [][NextTerrain]_vars

\* ---------------------------------------------- solver sizing, on its own
\* The solver options as a function of the number of cameras, for problems
\* of every size: only num_cameras and solver_options matter here.
InitSolver ==
  /\ num_cameras \in 1..MaxSolverCameras
  /\ cnet = <<>>
  /\ opt = OptionsOf(1, 0, 0, <<0, 0>>, <<2, 3>>, FALSE, {}, FALSE, FALSE, FALSE)
  /\ pc = "solver_config"
  /\ err = ""
  /\ pass = 0
  /\ cameras_vec = <<>>
  /\ intrinsics_vec = <<>>
  /\ points_vec = <<>>
  /\ orig_cameras_vec = <<>>
  /\ orig_points_vec = <<>>
  /\ orig_intrinsics_vec = <<>>
  /\ outlier_xyz = {}
  /\ scaled_intrinsics = <<>>
  /\ problem = EmptyProblem
  /\ cam_residual_counts = <<>>
  /\ num_gcp_residuals = 0
  /\ reference_vec = <<>>
  /\ num_new_outliers = 0
  /\ residual_log = NoLog
  /\ match_files = <<>>
  /\ solver_options = DefaultSolverOptions
  /\ model_cams = <<>>
  /\ hist = NoHist
  /\ main = NoMain
  /\ upd = NoUpd

\* "Set solver options according to the recommendations in the Ceres solving
\* FAQs"
ConfigureSolver ==
  /\ pc = "solver_config"
  /\ solver_options' = SolverOptions(num_cameras)
  /\ pc' = "solver_done"
  /\ UNCHANGED <<upd, main, num_cameras, cnet, opt, err, pass, cameras_vec, points_vec,
                 intrinsics_vec, orig_cameras_vec, orig_points_vec,
                 orig_intrinsics_vec, outlier_xyz, scaled_intrinsics, problem,
                 cam_residual_counts, num_gcp_residuals, reference_vec,
                 num_new_outliers, residual_log, match_files, model_cams, hist>>

SpecSolver == InitSolver /\ [][ConfigureSolver]_vars

\* ------------------------------------------ rigid alignment, on its own
\* main(): "If camera positions were provided for local inputs, align to
\* them" and "If we have GPC's for pinhole cameras, try to do a simple affine
\* initialization".  Positions are scalars, 0 standing for Vector3(0,0,0).
MIN_NUM_MATCHES == 3
MIN_NUM_GOOD_GCP == 3

\* (scale, translation) found by asp::find_3D_affine_transform.
TransformVals == {<<1, 5>>, <<2, 1>>}

\* for (i < num_cameras) if (estimated_camera_gcc[i] != Vector3(0,0,0))
\*   ++num_matches_found;
num_matches_found(est) == Cardinality({i \in DOMAIN est : est[i] # 0})

TooFewMatchesOffByOne(found) == found < MIN_NUM_MATCHES - 1

\* if (num_matches_found < MIN_NUM_MATCHES) vw_throw(ArgumentErr ...)
TooFewMatches(found) == found < MIN_NUM_MATCHES

\* cp_new.position() != Vector3() && cnet[ipt].position() != Vector3()
num_good_gcp(m) ==
  Cardinality({i \in 1..Len(cnet) :
                 /\ cnet[i].type = "gcp"
                 /\ m.triangulated[i] # 0
                 /\ m.position[i] # 0})

\* if (num_good_gcp < MIN_NUM_GOOD_GCP) vw_throw(ArgumentErr ...)
TooFewGoodGcp(found) == found < MIN_NUM_GOOD_GCP

\* dynamic_cast<vw::camera::PinholeModel*>(opt.camera_models[icam].get())
\* is NULL: m.pinhole[c] tells whether camera c is a PinholeModel.
NotPinhole(m) == {c \in DOMAIN m.pinhole : ~m.pinhole[c]}

\* VW_ASSERT(pincam != NULL, ArgumentErr() << "A pinhole camera expected.")
PinholeExpected(m) == NotPinhole(m) # {}

apply_rigid_transform_gcp_too(m, scale, translation) ==
  [m EXCEPT
     !.camera_center = [c \in DOMAIN @ |-> scale * @[c] + translation],
     !.position = [i \in DOMAIN @ |-> scale * @[i] + translation],
     !.transforms = @ + 1]

\* apply_rigid_transform: every camera, and every point that is not a GCP.
\* The assertion is inside the loop over the cameras: the cameras before the
\* first one that is not a pinhole camera are transformed when it throws.
apply_rigid_transform(m, scale, translation) ==
  IF PinholeExpected(m)
    THEN LET first == CHOOSE c \in NotPinhole(m) : \A d \in NotPinhole(m) : c <= d
         IN [m EXCEPT
               !.camera_center = [c \in DOMAIN @ |->
                                    IF c < first THEN scale * @[c] + translation
                                    ELSE @[c]]]
    ELSE [m EXCEPT
            !.camera_center = [c \in DOMAIN @ |-> scale * @[c] + translation],
            !.position = [i \in DOMAIN @ |->
                            IF cnet[i].type = "gcp" THEN @[i]
                            ELSE scale * @[i] + translation],
            !.transforms = @ + 1]

\* if (opt.create_pinhole && have_est_camera_positions)
\*   init_pinhole_model_with_camera_positions(opt, estimated_camera_gcc);
\* const bool have_est_camera_positions = (opt.camera_position_file != "");
have_est_camera_positions == opt.camera_position_file

GcpAlignmentAlways == opt.create_pinhole

\* if (opt.create_pinhole && !have_est_camera_positions)
GcpAlignment == opt.create_pinhole /\ ~have_est_camera_positions

AlignCameraPositions ==
  /\ pc = "align_cams"
  /\ hist' = IF opt.create_pinhole /\ have_est_camera_positions
               THEN [hist EXCEPT !.align_calls =
                       Append(@, "init_pinhole_model_with_camera_positions")]
               ELSE hist
  /\ IF opt.create_pinhole /\ have_est_camera_positions
       THEN IF Len(main.estimated_camera_gcc) # num_cameras
              THEN /\ pc' = "arg_error" /\ err' = "no_camera_matches"
                   /\ UNCHANGED main
            ELSE IF TooFewMatches(num_matches_found(main.estimated_camera_gcc))
              THEN /\ pc' = "arg_error" /\ err' = "too_few_camera_matches"
                   /\ UNCHANGED main
            ELSE \E tr \in TransformVals :
                   /\ main' = apply_rigid_transform(main, tr[1], tr[2])
                   /\ IF PinholeExpected(main)
                        THEN pc' = "arg_error" /\ err' = "pinhole_expected"
                        ELSE pc' = "align_gcp" /\ err' = err
       ELSE pc' = "align_gcp" /\ UNCHANGED <<err, main>>
  /\ UNCHANGED <<upd, num_cameras, cnet, opt, pass, cameras_vec, points_vec,
                 intrinsics_vec, orig_cameras_vec, orig_points_vec,
                 orig_intrinsics_vec, outlier_xyz, scaled_intrinsics, problem,
                 cam_residual_counts, num_gcp_residuals, reference_vec,
                 num_new_outliers, residual_log, match_files, solver_options,
                 model_cams>>

\* if (opt.gcp_files.size() > 0) {
\*   if (opt.create_pinhole && !have_est_camera_positions)
\*     init_pinhole_model_with_gcp(opt);
\*   check_gcp_dists(opt); }
\* init_pinhole_model_with_gcp asserts that every camera is a pinhole camera
\* in a loop of its own, before it counts the GCPs.
\* check_gcp_dists reads the network and triangulates copies of its
\* points; its one effect is a warning.
AlignGcp ==
  /\ pc = "align_gcp"
  /\ IF opt.gcp_files /\ GcpAlignment
       THEN IF PinholeExpected(main)
              THEN /\ pc' = "arg_error" /\ err' = "pinhole_expected"
                   /\ UNCHANGED main
            ELSE IF TooFewGoodGcp(num_good_gcp(main))
              THEN /\ pc' = "arg_error" /\ err' = "too_few_gcp"
                   /\ UNCHANGED main
              ELSE \E tr \in TransformVals :
                     /\ main' = apply_rigid_transform(main, tr[1], tr[2])
                     /\ pc' = "aligned" /\ err' = err
       ELSE pc' = "aligned" /\ UNCHANGED <<err, main>>
  /\ hist' = [hist EXCEPT !.align_calls =
                @ \o (IF opt.gcp_files /\ GcpAlignment
                        THEN <<"init_pinhole_model_with_gcp">> ELSE <<>>)
                  \o (IF opt.gcp_files /\ pc' = "aligned"
                        THEN <<"check_gcp_dists">> ELSE <<>>)]
  /\ UNCHANGED <<upd, num_cameras, cnet, opt, pass, cameras_vec, points_vec,
                 intrinsics_vec, orig_cameras_vec, orig_points_vec,
                 orig_intrinsics_vec, outlier_xyz, scaled_intrinsics, problem,
                 cam_residual_counts, num_gcp_residuals, reference_vec,
                 num_new_outliers, residual_log, match_files, solver_options,
                 model_cams>>

\* The camera centers and the tie point position before the alignment.
InitCameraCenter(n) == [c \in 1..n |-> 10 + c]
InitTiePosition == 9

\* A network of one tie point followed by k ground control points.
AlignNetwork(n, k) ==
  [i \in 1..(k + 1) |->
     [type |-> IF i = 1 THEN "tie" ELSE "gcp", measures |-> 0..(n - 1)]]

\* Runs over the number of cameras and of GCPs, the position file (absent,
\* or with a zero or non-zero position for every camera) and, for every
\* GCP, whether it triangulates and whether its given position is non-zero.
InitAlignOf(CameraTypes(_)) ==
  \E n \in 1..MaxAlignCameras, k \in 0..MaxAlignGcps,
     pinhole \in BOOLEAN, posfile \in BOOLEAN :
    \E est \in (IF posfile THEN [1..n -> {0, 7}] ELSE {<<>>}),
       tri \in [2..(k + 1) -> {0, 3}], given \in [2..(k + 1) -> {0, 4}],
       types \in CameraTypes(n) :
      /\ num_cameras = n
      /\ cnet = AlignNetwork(n, k)
      /\ opt = [OptionsOf(1, 0, 0, <<0, 0>>, <<2, 3>>, FALSE, {}, FALSE, FALSE, FALSE)
                  EXCEPT !.create_pinhole = pinhole,
                         !.camera_position_file = posfile,
                         !.gcp_files = (k > 0)]
      /\ main = [NoMain EXCEPT
                   !.estimated_camera_gcc = est,
                   !.triangulated = [i \in 1..(k + 1) |->
                                       IF i = 1 THEN InitTiePosition ELSE tri[i]],
                   !.position = [i \in 1..(k + 1) |->
                                   IF i = 1 THEN InitTiePosition ELSE given[i]],
                   !.camera_center = InitCameraCenter(n),
                   !.pinhole = types]
      /\ pc = "align_cams"
      /\ err = ""
      /\ pass = 0
      /\ cameras_vec = <<>>
      /\ intrinsics_vec = <<>>
      /\ points_vec = <<>>
      /\ orig_cameras_vec = <<>>
      /\ orig_points_vec = <<>>
      /\ orig_intrinsics_vec = <<>>
      /\ outlier_xyz = {}
      /\ scaled_intrinsics = <<>>
      /\ problem = EmptyProblem
      /\ cam_residual_counts = <<>>
      /\ num_gcp_residuals = 0
      /\ reference_vec = <<>>
      /\ num_new_outliers = 0
      /\ residual_log = NoLog
      /\ match_files = <<>>
      /\ solver_options = DefaultSolverOptions
      /\ model_cams = <<>>
      /\ hist = NoHist
      /\ upd = NoUpd

\* Every camera file holds a pinhole camera.
AllPinhole(n) == {[c \in 1..n |-> TRUE]}

InitAlign == InitAlignOf(AllPinhole)

\* Every camera is a pinhole camera, or exactly one is not.
OneOther(n) ==
  AllPinhole(n) \cup {[c \in 1..n |-> c # x] : x \in 1..n}

InitRigid == InitAlignOf(OneOther)

NextAlign ==
  \/ AlignCameraPositions
  \/ AlignGcp

SpecAlign == InitAlign /\ [][NextAlign]_vars

SpecRigid == InitRigid /\ [][NextAlign]_vars

\* ------------------------------ map-projection match transfer, on its own
\* main(): "Create match files from mapprojection".  An interest point is
\* named by the image it was found in and its index in the match file; raw
\* tells whether its pixel is in the raw camera image or still in the
\* map-projected image.  "dem" names the DEM of --gcp-data.
MaxIps == 2

MapImages == {0, 1}

MapIp(i, p) == [img |-> i, p |-> p, raw |-> FALSE]
CamIp(i, p) == [img |-> i, p |-> p, raw |-> TRUE]

\* What happens to an interest point of a map-projected image on its way to
\* the camera: "no_dem" when dem_pix is outside the DEM or the sample there
\* is not valid, "throw" when point_to_pixel throws.
TransferOutcomes == {"ok", "no_dem", "throw"}

\* The pixel of the DEM picked for a GCP: outside of the DEM, not valid, ok.
DemIpOutcomes == {"ok", "outside", "invalid"}

MapPairs == {q \in MapImages \X MapImages : q[1] < q[2]}
GcpPairs == {q \in MapImages \X MapImages : q[1] <= q[2]}

\* "Undo the map-projection": the loop over ip_iter; out = [ip1, ip2] is
\* (ip1_cam, ip2_cam).
RECURSIVE UndoMapProjection(_, _, _, _, _)
UndoMapProjection(out, ip1, ip2, ip_iter, tr) ==
  IF ip_iter > Len(ip1) THEN out
  ELSE
    LET P1 == ip1[ip_iter]
        P2 == ip2[ip_iter]
    IN IF tr[P1.img][P1.p] # "ok"
         THEN UndoMapProjection(out, ip1, ip2, ip_iter + 1, tr)
       ELSE IF tr[P2.img][P2.p] # "ok"
         THEN UndoMapProjection(out, ip1, ip2, ip_iter + 1, tr)
       ELSE UndoMapProjection(
              [ip1 |-> Append(out.ip1, CamIp(P1.img, P1.p)),
               ip2 |-> Append(out.ip2, CamIp(P2.img, P2.p))],
              ip1, ip2, ip_iter + 1, tr)

\* create_matches_from_mapprojected_images: a pair without a match file of
\* the map-projected images is skipped; the file of the raw images of every
\* other pair is written.
create_matches_from_mapprojected_images(files, m) ==
  [pr \in DOMAIN files \cup DOMAIN m.map_matches |->
     IF pr \in DOMAIN m.map_matches
       THEN UndoMapProjection([ip1 |-> <<>>, ip2 |-> <<>>],
                              m.map_matches[pr].ip1, m.map_matches[pr].ip2,
                              1, m.transfer)
       ELSE files[pr]]

\* "Read the matches and georefs": r = [err, matches, dem], dem being
\* matches[num_images].
RECURSIVE ReadGcpMatches(_, _, _)
ReadGcpMatches(r, i, m) ==
  IF i \notin MapImages \/ r.err # "" THEN r
  ELSE IF i \notin DOMAIN m.gcp_matches
    THEN [r EXCEPT !.err = "missing_match_file"]
  ELSE IF Len(r.dem) > 0 /\ Len(r.dem) # Len(m.gcp_matches[i].ip2)
    THEN [r EXCEPT !.err = "ip_count"]
  ELSE ReadGcpMatches([err |-> "",
                       matches |-> [r.matches EXCEPT ![i] = m.gcp_matches[i].ip1],
                       dem |-> m.gcp_matches[i].ip2],
                      i + 1, m)

\* "Write the per-image information": g = [cam_matches, images].
RECURSIVE GcpImages(_, _, _, _)
GcpImages(g, p, i, m) ==
  IF i \notin MapImages THEN g
  ELSE IF m.transfer[i][g.cam_matches[i][p].p] # "ok"
    THEN GcpImages(g, p, i + 1, m)
  ELSE GcpImages([cam_matches |-> [g.cam_matches EXCEPT ![i][p] = CamIp(i, @.p)],
                  images |-> Append(g.images, i)],
                 p, i + 1, m)

\* PixelMask<float> mask_height = interp_dem(dem_pixel[0], dem_pixel[1])[0]:
\* [0] is the height channel of the sample, a number, and the PixelMask made
\* from a number is valid whatever the sample was.
mask_height(sample) == "ok"

\* "Loop through IPs": w = [cam_matches, lines], lines being the GCP file.
\* A pixel outside of the DEM is skipped; "if (!is_valid(mask_height))
\* continue;" skips no point.
RECURSIVE GcpPoints(_, _, _, _)
GcpPoints(w, dem, p, m) ==
  IF p > Len(w.cam_matches[0]) THEN w
  ELSE IF m.dem_ip[dem[p].p] = "outside"
    THEN GcpPoints(w, dem, p + 1, m)
  ELSE IF mask_height(m.dem_ip[dem[p].p]) # "ok"
    THEN GcpPoints(w, dem, p + 1, m)
  ELSE LET g == GcpImages([cam_matches |-> w.cam_matches, images |-> <<>>],
                          p, 0, m)
       IN GcpPoints([cam_matches |-> g.cam_matches,
                     lines |-> Append(w.lines,
                                      [id |-> Len(w.lines), p |-> p,
                                       images |-> g.images])],
                    dem, p + 1, m)

\* ip::write_binary_match_file(match_filename, cam_matches[i], cam_matches[j])
\* for every i <= j.
WriteGcpMatches(files, cam_matches) ==
  [pr \in DOMAIN files \cup GcpPairs |->
     IF pr \in GcpPairs
       THEN [ip1 |-> cam_matches[pr[1]], ip2 |-> cam_matches[pr[2]]]
       ELSE files[pr]]

\* if (opt.mapprojected_data != "") create_matches_from_mapprojected_images(opt);
TransferMatches ==
  /\ pc = "mapproj_matches"
  /\ match_files' = IF opt.mapprojected_data
                      THEN create_matches_from_mapprojected_images(match_files, main)
                      ELSE match_files
  /\ pc' = "mapproj_gcp"
  /\ UNCHANGED <<upd, main, num_cameras, cnet, opt, err, pass, cameras_vec,
                 points_vec, intrinsics_vec, orig_cameras_vec, orig_points_vec,
                 orig_intrinsics_vec, outlier_xyz, scaled_intrinsics, problem,
                 cam_residual_counts, num_gcp_residuals, reference_vec,
                 num_new_outliers, residual_log, solver_options, model_cams,
                 hist>>

\* if (opt.gcp_data != "") { create_gcp_from_mapprojected_images(opt);
\*                           return 0; }
TransferGcp ==
  /\ pc = "mapproj_gcp"
  /\ IF ~opt.gcp_data
       THEN pc' = "matching" /\ UNCHANGED <<err, main, match_files>>
       ELSE LET r == ReadGcpMatches([err |-> "",
                                     matches |-> [i \in MapImages |-> <<>>],
                                     dem |-> <<>>],
                                    0, main)
                w == GcpPoints([cam_matches |-> r.matches, lines |-> <<>>],
                               r.dem, 1, main)
            IN IF r.err # ""
                 THEN /\ pc' = "arg_error" /\ err' = r.err
                      /\ UNCHANGED <<main, match_files>>
                 ELSE /\ pc' = "returned" /\ err' = err
                      /\ main' = [main EXCEPT !.gcp_file = w.lines]
                      /\ match_files' = WriteGcpMatches(match_files, w.cam_matches)
  /\ UNCHANGED <<upd, num_cameras, cnet, opt, pass, cameras_vec,
                 points_vec, intrinsics_vec, orig_cameras_vec, orig_points_vec,
                 orig_intrinsics_vec, outlier_xyz, scaled_intrinsics, problem,
                 cam_residual_counts, num_gcp_residuals, reference_vec,
                 num_new_outliers, residual_log, solver_options, model_cams,
                 hist>>

\* The match file of a pair of map-projected images, and of a map-projected
\* image and the DEM, with n matches.
MapMatchFile(i, j, n) ==
  [ip1 |-> [p \in 1..n |-> MapIp(i, p)], ip2 |-> [p \in 1..n |-> MapIp(j, p)]]

\* The match files of --gcp-data: every file with MaxIps matches; or the
\* file of one image empty; or the file of the last image missing.
GcpMatchFiles ==
  {[i \in MapImages |-> MapMatchFile(i, "dem", MaxIps)]}
    \cup {[i \in MapImages |-> MapMatchFile(i, "dem", IF i = e THEN 0 ELSE MaxIps)] :
            e \in MapImages}
    \cup {[i \in MapImages \ {1} |-> MapMatchFile(i, "dem", MaxIps)]}

AllDemIpsOk == [p \in 1..MaxIps |-> "ok"]

\* Runs over both options, the outcome of the transfer of every interest
\* point, the outcome of the DEM pixel of every GCP and the match files
\* found.  Every map-projected image has a georeference and there are as
\* many cameras as map-projected images.
InitTransfer ==
  \E mapdata \in BOOLEAN, gcpdata \in BOOLEAN :
    \E tr \in [MapImages -> [1..MaxIps -> TransferOutcomes]],
       found \in (IF mapdata /\ ~gcpdata THEN SUBSET MapPairs ELSE {MapPairs}),
       gm \in (IF gcpdata THEN GcpMatchFiles ELSE {<<>>}) :
      \E dem \in (IF gcpdata /\ gm = [i \in MapImages |-> MapMatchFile(i, "dem", MaxIps)]
                    THEN [1..MaxIps -> DemIpOutcomes] ELSE {AllDemIpsOk}) :
      /\ num_cameras = Cardinality(MapImages)
      /\ cnet = <<>>
      /\ opt = [OptionsOf(1, 0, 0, <<0, 0>>, <<2, 3>>, FALSE, {}, FALSE, FALSE, FALSE)
                  EXCEPT !.mapprojected_data = mapdata, !.gcp_data = gcpdata]
      /\ main = [NoMain EXCEPT
                   !.transfer = tr,
                   !.dem_ip = dem,
                   !.map_matches = IF mapdata
                                     THEN [pr \in found |->
                                             MapMatchFile(pr[1], pr[2], MaxIps)]
                                     ELSE <<>>,
                   !.gcp_matches = gm]
      /\ pc = "mapproj_matches"
      /\ err = ""
      /\ pass = 0
      /\ cameras_vec = <<>>
      /\ intrinsics_vec = <<>>
      /\ points_vec = <<>>
      /\ orig_cameras_vec = <<>>
      /\ orig_points_vec = <<>>
      /\ orig_intrinsics_vec = <<>>
      /\ outlier_xyz = {}
      /\ scaled_intrinsics = <<>>
      /\ problem = EmptyProblem
      /\ cam_residual_counts = <<>>
      /\ num_gcp_residuals = 0
      /\ reference_vec = <<>>
      /\ num_new_outliers = 0
      /\ residual_log = NoLog
      /\ match_files = <<>>
      /\ solver_options = DefaultSolverOptions
      /\ model_cams = <<>>
      /\ hist = NoHist
      /\ upd = NoUpd

NextTransfer ==
  \/ TransferMatches
  \/ TransferGcp

SpecTransfer == InitTransfer /\ [][NextTransfer]_vars

\* ------------------------------------------------------- the legacy solver
\* do_ba_nonceres. The tolerances are kept in units in which both limits are
\* 10: abs_tol in thousandths (0.01), rel_tol in units of 1e-7 (1e-6).
MaxIterations == 7
AbsTolLimit == 10
RelTolLimit == 10
\* double abs_tol = 1e10, rel_tol = 1e10; double overall_delta = 2;
InitialTol == 1000
InitialDelta == 2

\* The values bundle_adjuster.update can leave in a tolerance, and return.
TolValues == {AbsTolLimit - 1, AbsTolLimit, InitialTol}
DeltaValues == {0, 1}

NoImprovementLate(count) == count > 5

\* "else if ( no_improvement_count > 4 )"
NoImprovement(count) == count > 4

\* "Determine if it is time to quit": the name of the test that triggers
\* the break, or "" to go on; the tests are tried in this order.
QuitTrigger(a) ==
  IF a.iterations >= opt.max_iterations THEN "Max Iterations"
  ELSE IF a.abs_tol < AbsTolLimit THEN "Abs Tol"
  ELSE IF a.rel_tol < RelTolLimit THEN "Rel Tol"
  ELSE IF NoImprovement(a.no_improvement_count) THEN "unable to improve"
  ELSE ""

\* The head of "while ( true )".
NonCeresCheck ==
  /\ pc = "nonceres_check"
  /\ LET t == QuitTrigger(main.adjuster)
     IN /\ main' = [main EXCEPT !.adjuster.trigger = t]
        /\ pc' = IF t # "" THEN "nonceres_done" ELSE "nonceres_update"
  /\ UNCHANGED <<upd, num_cameras, cnet, opt, err, pass, cameras_vec,
                 points_vec, intrinsics_vec, orig_cameras_vec, orig_points_vec,
                 orig_intrinsics_vec, outlier_xyz, scaled_intrinsics, problem,
                 cam_residual_counts, num_gcp_residuals, reference_vec,
                 num_new_outliers, residual_log, match_files, solver_options,
                 model_cams, hist>>

\* overall_delta = bundle_adjuster.update( abs_tol, rel_tol ) and the
\* counter. The adjuster is VisionWorkbench's: the delta it returns and the
\* tolerances it leaves are chosen, and each update counts as an iteration.
NonCeresUpdate ==
  /\ pc = "nonceres_update"
  /\ \E delta \in DeltaValues, at \in TolValues, rt \in TolValues :
       main' = [main EXCEPT
                  !.adjuster.iterations = @ + 1,
                  !.adjuster.abs_tol = at,
                  !.adjuster.rel_tol = rt,
                  !.adjuster.overall_delta = delta,
                  !.adjuster.no_improvement_count = IF delta = 0 THEN @ + 1 ELSE 0,
                  !.adjuster.deltas = Append(@, delta)]
  /\ pc' = "nonceres_check"
  /\ UNCHANGED <<upd, num_cameras, cnet, opt, err, pass, cameras_vec,
                 points_vec, intrinsics_vec, orig_cameras_vec, orig_points_vec,
                 orig_intrinsics_vec, outlier_xyz, scaled_intrinsics, problem,
                 cam_residual_counts, num_gcp_residuals, reference_vec,
                 num_new_outliers, residual_log, match_files, solver_options,
                 model_cams, hist>>

\* "AdjusterT bundle_adjuster(ba_model, cost_function, false, false);" and
\* the locals of do_ba_nonceres before its loop.
NewAdjuster ==
  [iterations |-> 0,
   abs_tol |-> InitialTol,
   rel_tol |-> InitialTol,
   overall_delta |-> InitialDelta,
   no_improvement_count |-> 0,
   trigger |-> "",
   deltas |-> <<>>]

\* The entry of do_ba_nonceres, for every --max-iterations up to the bound.
InitNonCeres ==
  \E maxit \in 0..MaxIterations :
    /\ num_cameras = NumCameras
    /\ cnet = <<>>
    /\ opt = [OptionsOf(1, 0, 0, <<0, 0>>, <<2, 3>>, FALSE, {}, FALSE, FALSE, FALSE)
                EXCEPT !.max_iterations = maxit]
    /\ main = [NoMain EXCEPT !.adjuster = NewAdjuster]
    /\ pc = "nonceres_check"
    /\ err = ""
    /\ pass = 0
    /\ cameras_vec = <<>>
    /\ intrinsics_vec = <<>>
    /\ points_vec = <<>>
    /\ orig_cameras_vec = <<>>
    /\ orig_points_vec = <<>>
    /\ orig_intrinsics_vec = <<>>
    /\ outlier_xyz = {}
    /\ scaled_intrinsics = <<>>
    /\ problem = EmptyProblem
    /\ cam_residual_counts = <<>>
    /\ num_gcp_residuals = 0
    /\ reference_vec = <<>>
    /\ num_new_outliers = 0
    /\ residual_log = NoLog
    /\ match_files = <<>>
    /\ solver_options = DefaultSolverOptions
    /\ model_cams = <<>>
    /\ upd = NoUpd
    /\ hist = NoHist

NextNonCeres ==
  \/ NonCeresCheck
  \/ NonCeresUpdate

\* The loop runs without interruption: a step that can be taken is taken.
SpecNonCeres == InitNonCeres /\ [][NextNonCeres]_vars /\ WF_vars(NextNonCeres)

\* ------------------------------------------------ matching, then the run
\* main(): the pairs in the order of the loops "for (i < num_images)
\* for (j = i+1; j <= min(num_images-1, i+overlap_limit))".
RECURSIVE PairOrderFrom(_, _, _)
PairOrderFrom(n, i, j) ==
  IF i >= n - 1 THEN <<>>
  ELSE IF j >= n THEN PairOrderFrom(n, i + 1, i + 2)
  ELSE <<(<<i, j>>)>> \o PairOrderFrom(n, i, j + 1)

PairOrder(n) == PairOrderFrom(n, 0, 1)

\* What happens to one pair: the match file is up to date, the images have
\* several channels, the try block runs to its end, ip_matching throws
\* before it wrote the match file ("failed": the file holds no match), or
\* the try block throws while a match file exists, one of an earlier run or
\* the one ip_matching wrote ("failed_late").
MatchOutcomes == {"cached", "multi_channel", "matched", "failed", "failed_late"}

\* The outcomes that end in the catch block.
FailedOutcomes == {"failed", "failed_late"}

\* The pair of two images, as the key of opt.match_files.
PairOf(c, d) == IF c < d THEN <<c, d>> ELSE <<d, c>>

\* The images of a tie point that chains of matches link to the ones seen,
\* when the match files of the pairs in missing were never written.
RECURSIVE LinkedImages(_, _, _)
LinkedImages(seen, measures, missing) ==
  LET more == seen \cup {c \in measures :
                           \E d \in seen : c # d /\ PairOf(c, d) \notin missing}
  IN IF more = seen THEN seen ELSE LinkedImages(more, measures, missing)

\* The control network is built from the written match files, a tie point
\* joining the matches that share an interest point: the measures of every
\* tie point are linked by pairs whose match file was written.  A pair of two
\* measures of a tie point can thus fail, as long as other pairs link them.
HasMatches(missing) ==
  \A i \in 1..Len(cnet) :
    (cnet[i].type = "tie" /\ cnet[i].measures # {}) =>
      LinkedImages({CHOOSE c \in cnet[i].measures : TRUE}, cnet[i].measures,
                   missing) = cnet[i].measures

CountAll(n, outcome) == n + 1

\* ++num_pairs_matched, in the cached branch and at the end of the try block.
CountMatched(n, outcome) == IF outcome \in FailedOutcomes THEN n ELSE n + 1

\* One iteration of the loop over the image pairs.
MatchPair ==
  /\ pc = "matching"
  /\ LET k == Len(main.pairs) + 1
         order == PairOrder(num_cameras)
         pr == order[k]
     IN \E outcome \in MatchOutcomes :
          /\ (outcome = "failed") => HasMatches(main.unwritten \cup {pr})
          /\ IF outcome = "multi_channel"
               THEN /\ pc' = "arg_error" /\ err' = "multi_channel"
                    /\ main' = [main EXCEPT !.pairs = Append(@, pr)]
               ELSE /\ main' = [main EXCEPT
                                  !.pairs = Append(@, pr),
                                  !.num_pairs_matched = CountMatched(@, outcome),
                                  !.failed = IF outcome \in FailedOutcomes
                                               THEN @ \cup {pr} ELSE @,
                                  !.unwritten = IF outcome = "failed"
                                                  THEN @ \cup {pr} ELSE @]
                    /\ pc' = IF k = Len(order) THEN "align_cams" ELSE "matching"
                    /\ err' = err
          /\ match_files' = IF outcome = "failed"
                               THEN [match_files EXCEPT ![pr] = <<>>]
                               ELSE match_files
  /\ UNCHANGED <<upd, num_cameras, cnet, opt, pass, cameras_vec, points_vec,
                 intrinsics_vec, orig_cameras_vec, orig_points_vec,
                 orig_intrinsics_vec, outlier_xyz, scaled_intrinsics, problem,
                 cam_residual_counts, num_gcp_residuals, reference_vec,
                 num_new_outliers, residual_log, solver_options,
                 model_cams, hist>>

\* do_ba_with_model: the cost functions it switches on; any other value
\* throws ArgumentErr "Unknown cost function".
ModelCostFunctions == {"cauchy", "pseudohuber", "huber", "l1", "l2"}
UnknownCostFunction == opt.cost_function \notin ModelCostFunctions

\* "if (opt.create_pinhole == false) do_ba_with_model(opt); else { ...
\* do_ba_ceres<BAPinholeModel>(ba_model, opt);": the adjustment starts.
\* Without create_pinhole do_ba_with_model picks the cost function and
\* do_ba_costfun the adjuster: do_ba_ceres for "ceres", do_ba_nonceres for
\* the four others handle_arguments lets through.
\* InitCamerasVec and InitPointsVec name the camera parameters and the
\* point positions do_ba_ceres reads at its entry, after the alignment.
RunAdjustment ==
  /\ pc = "aligned"
  /\ IF opt.create_pinhole
       THEN pc' = "start" /\ UNCHANGED <<err, main>>
     ELSE IF UnknownCostFunction
       THEN pc' = "arg_error" /\ err' = "unknown_cost_function"
            /\ UNCHANGED main
     ELSE IF opt.ba_type = "ceres"
       THEN pc' = "start" /\ UNCHANGED <<err, main>>
     ELSE /\ pc' = "nonceres_check"
          /\ main' = [main EXCEPT !.adjuster = NewAdjuster]
          /\ err' = err
  /\ UNCHANGED <<upd, num_cameras, cnet, opt, pass, cameras_vec,
                 points_vec, intrinsics_vec, orig_cameras_vec, orig_points_vec,
                 orig_intrinsics_vec, outlier_xyz, scaled_intrinsics, problem,
                 cam_residual_counts, num_gcp_residuals, reference_vec,
                 num_new_outliers, residual_log, match_files, solver_options,
                 model_cams, hist>>

\* The runs of main(): with create_pinhole, or without it for a known and
\* an unknown cost function and for the ceres and a VisionWorkbench
\* adjuster; solve_intrinsics needs create_pinhole (handle_arguments).
MainRuns ==
  {[create_pinhole |-> TRUE, cost_function |-> "cauchy", ba_type |-> "ceres"]}
    \cup {[create_pinhole |-> FALSE, cost_function |-> cf, ba_type |-> ba] :
            cf \in {"cauchy", "foo"}, ba \in {"ceres", "sparse"}}

\* The images of a run of main(): three, so that the loop over the pairs
\* has pairs left after the first.
MainCameras == 3

\* The points of the network of such a run: a tie point with a measure in
\* every image, one matched in the last pair only (the first two pairs have
\* no match of it), and a GCP with a measure in every image.
MainPointKinds ==
  { [type |-> "tie", measures |-> 0..(MainCameras - 1)],
    [type |-> "tie", measures |-> {MainCameras - 2, MainCameras - 1}],
    [type |-> "gcp", measures |-> 0..(MainCameras - 1)] }

\* The networks of these points, in the order main() builds them: the tie
\* points with a measure in the first image before the others (the network
\* is built from the match files in the order of the pairs), the GCPs after
\* the tie points (add_ground_control_points follows build_control_network);
\* and the network of a run whose pairs gave no match and whose GCP file has
\* a measure in the first image only.
MainNetworks ==
  {net \in SeqsUpTo(MainPointKinds, MaxPoints) \ {<<>>} :
     \A i \in 1..Len(net) : \A j \in i..Len(net) :
       /\ net[i].type = "gcp" => net[j].type = "gcp"
       /\ (net[j].type = "tie" /\ 0 \in net[j].measures) =>
            0 \in net[i].measures}
    \cup {<<[type |-> "gcp", measures |-> {0}]>>}

\* A run of two passes, from the matching on, with no camera-positions
\* file; a network with a GCP comes with a GCP file
\* (add_ground_control_points), and every GCP triangulates.
InitMain ==
  \E net \in MainNetworks, minm \in MinMatchesVals, run \in MainRuns :
    InitAtMain(MainCameras, net,
               [OptionsOf(2, minm, 1, <<0, 0>>, <<2, 3>>, FALSE, {}, FALSE, FALSE,
                          run.create_pinhole)
                  EXCEPT !.gcp_files = \E i \in 1..Len(net) : net[i].type = "gcp",
                         !.create_pinhole = run.create_pinhole,
                         !.cost_function = run.cost_function,
                         !.ba_type = run.ba_type,
                         !.max_iterations = 1],
               "matching", 0..(Len(net) - 1), <<>>,
               [NoMain EXCEPT
                  !.triangulated = [i \in 1..Len(net) |->
                                      IF net[i].type = "gcp" THEN 3
                                      ELSE InitTiePosition],
                  !.position = [i \in 1..Len(net) |->
                                  IF net[i].type = "gcp" THEN 4
                                  ELSE InitTiePosition],
                  !.camera_center = InitCameraCenter(MainCameras),
                  !.pinhole = [c \in 1..MainCameras |-> TRUE]])

NextMain ==
  \/ MatchPair
  \/ AlignCameraPositions
  \/ AlignGcp
  \/ RunAdjustment
  \/ NonCeresCheck
  \/ NonCeresUpdate
  \/ Next

SpecMain == InitMain /\ [][NextMain]_vars

\* ------------------------------------------------ the cost function option
\* --cost-function as it can be typed: the spellings of the help text and
\* their lower-case forms.
CostFunctionArgs ==
  {"Cauchy", "PseudoHuber", "Huber", "L1", "L2",
   "cauchy", "pseudohuber", "huber", "l1", "l2"}

\* boost::to_lower(opt.cost_function)
to_lower(s) ==
  CASE s = "Cauchy" -> "cauchy"
    [] s = "PseudoHuber" -> "pseudohuber"
    [] s = "Huber" -> "huber"
    [] s = "L1" -> "l1"
    [] s = "L2" -> "l2"
    [] OTHER -> s

\* A run of two passes for every network and every spelling of the option.
InitLoss ==
  \E net \in Networks, arg \in CostFunctionArgs, terrain \in BOOLEAN :
    \E terr \in (IF terrain THEN TerrainInputs(NumCameras) ELSE {<<>>}) :
      InitWith(NumCameras, net,
               [OptionsOf(2, 0, 1, <<0, 0>>, <<2, 3>>, terrain, {}, FALSE, FALSE, TRUE)
                  EXCEPT !.cost_function = to_lower(arg),
                         !.terrain_outcomes = terr])

SpecLoss == InitLoss /\ [][Next]_vars

\* ------------------------------------------- outliers and the overlap count
\* A run of two passes for every network, with and without the weighting
\* by the number of images that see a point.
InitOverlap ==
  \E net \in Networks, p \in {0, 1} :
    InitWith(NumCameras, net,
             [OptionsOf(2, 0, 1, <<0, 0>>, <<2, 3>>, FALSE, {}, FALSE, FALSE, TRUE)
                EXCEPT !.overlap_exponent = p])

SpecOverlap == InitOverlap /\ [][Next]_vars

\* The observations of a network, as (camera, point) pairs.
ObservationsOf(net) ==
  {o \in (0..(NumCameras - 1)) \X (0..(Len(net) - 1)) : o[1] \in net[o[2] + 1].measures}

\* Runs over every network, with and without the overlap weighting, and
\* with at most one observation whose scale is NaN, of the first point.
InitSigma ==
  \E net \in Networks, p \in {0, 1} :
    \E nan \in {{}} \cup {{o} : o \in {q \in ObservationsOf(net) : q[2] = 0}} :
      InitWith(NumCameras, net,
               [OptionsOf(2, 0, 1, <<0, 0>>, <<2, 3>>, FALSE, {}, FALSE, FALSE, TRUE)
                  EXCEPT !.overlap_exponent = p, !.nan_scale = nan])

SpecSigma == InitSigma /\ [][Next]_vars

\* Runs of three passes over every network: update_outliers is called in a
\* pass that starts with outliers.
InitWalk ==
  \E net \in Networks :
    InitWith(NumCameras, net,
             OptionsOf(3, 0, 1, <<0, 0>>, <<2, 3>>, FALSE, {}, FALSE, FALSE, TRUE))

SpecWalk == InitWalk /\ [][Next]_vars

\* Runs of two passes over every network; the match files hold the matches
\* of every point, or lack those of the first point (files rewritten by an
\* earlier run, points matched through another image), and may hold one
\* match the network does not have; the last point may be measured in the
\* last image only.
MatchNetworks ==
  Networks \cup
  {Append(net, [type |-> "tie", measures |-> {NumCameras - 1}]) :
     net \in {q \in Networks : Len(q) < MaxPoints}}

InitMatches ==
  \E net \in MatchNetworks :
    \E matched \in {0..(Len(net) - 1), 1..(Len(net) - 1)} :
      \E stray \in (IF matched = 0..(Len(net) - 1)
                      THEN StrayMatches(NumCameras, net) ELSE {<<>>}) :
        InitAtWith(NumCameras, net,
                   OptionsOf(2, 0, 1, <<0, 0>>, <<2, 3>>, FALSE, {}, FALSE, FALSE, TRUE),
                   "start", matched, stray)

SpecMatches == InitMatches /\ [][Next]_vars

\* ----------------------------------------------------------- fixed cameras
\* A run of two passes for every network, with the first or the last camera
\* fixed, with and without the camera prior.
InitFixed ==
  \E net \in Networks, icam \in {0, NumCameras - 1}, cw \in {0, 1} :
    InitWith(NumCameras, net,
             OptionsOf(2, 0, cw, <<0, 0>>, <<2, 3>>, FALSE, {icam}, FALSE, FALSE, TRUE))

SpecFixed == InitFixed /\ [][Next]_vars

\* ------------------------------------------------------ floated intrinsics
IntrinsicNames == {"focal_length", "optical_center", "distortion_params"}

\* A run of two passes that solves for the intrinsics, for every network
\* and every value of --intrinsics-to-float.
InitIntr ==
  \E net \in Networks, names \in SUBSET IntrinsicNames :
    InitWith(NumCameras, net,
             [OptionsOf(2, 0, 1, <<0, 0>>, <<2, 3>>, FALSE, {}, FALSE, FALSE, TRUE)
                EXCEPT !.intrinsics_to_float = names])

SpecIntr == InitIntr /\ [][Next]_vars

\* --------------------------------------------------------- heights from DEM
\* A run of two passes with --heights-from-dem and without --fix-gcp-xyz,
\* for every network and every set of points the DEM covers.
InitDem ==
  \E net \in Networks :
    \E valid \in SUBSET (0..(Len(net) - 1)) :
      InitWith(NumCameras, net,
               [OptionsOf(2, 0, 1, <<0, 0>>, <<2, 3>>, FALSE, {}, FALSE, TRUE, TRUE)
                  EXCEPT !.dem_valid = valid])

SpecDem == InitDem /\ [][Next]_vars

\* ------------------------------------------------------------- GCP anchors
\* A run of two passes for every network, with and without --fix-gcp-xyz.
InitGcp ==
  \E net \in Networks, fixgcp \in BOOLEAN :
    InitWith(NumCameras, net,
             OptionsOf(2, 0, 1, <<0, 0>>, <<2, 3>>, FALSE, {}, fixgcp, FALSE, TRUE))

SpecGcp == InitGcp /\ [][Next]_vars

\* ------------------------------------------------------------------ claims
remaining_points == num_points - Cardinality(outlier_xyz)

\* C1: across the passes of a run the outlier set only grows: no step of the
\* run removes an index from outlier_xyz, so the set held after pass k is a
\* subset of the set held after pass k+1.
C1_OutliersOnlyGrow ==
  [][outlier_xyz \subseteq outlier_xyz']_vars

\* Two passes in a row have each added a point.
C1_Witness ==
  \E k \in 1..(Len(hist.after_pass) - 1) :
    /\ hist.after_pass[k] # {}
    /\ hist.after_pass[k] # hist.after_pass[k + 1]
    /\ hist.after_pass[k] \subseteq hist.after_pass[k + 1]

\* C2: no index in the outlier set is a ground control point.
C2_NoGcpOutlier ==
  \A ipt \in outlier_xyz : ~IsGcp(ipt)

\* update_outliers has flagged points of a network that has a GCP with
\* observations.
C2_Witness ==
  /\ hist.update_calls > 0
  /\ outlier_xyz # {}
  /\ \E ipt \in Points : IsGcp(ipt) /\ cnet[ipt + 1].measures # {}

\* C3: with num_ba_passes = 1 update_outliers and remove_outliers are never
\* called, the outlier set stays empty and no match file is rewritten.
C3_SinglePassNoRejection ==
  opt.num_ba_passes = 1 =>
    /\ hist.update_calls = 0
    /\ hist.remove_calls = 0
    /\ outlier_xyz = {}
    /\ match_files = [pr \in MatchPairs |-> InitialMatches(cnet, 0, pr[1], pr[2])]
    /\ pass \in {0, 1}

\* A single-pass run has finished, with max_pix1 above max_pix2 and with
\* min_matches above the point count.
C3_Witness ==
  /\ opt.num_ba_passes = 1
  /\ pc = "done"
  /\ opt.min_matches > num_points
  /\ opt.remove_outliers_params[3] > opt.remove_outliers_params[4]
  /\ \E ipt \in Points : ~IsGcp(ipt)

\* C4: after pass k the loop stops (and the cameras are written) exactly
\* when k is the final pass or pass k added no outlier; otherwise pass k+1
\* is entered, unless the run aborts.
C4_LoopStops ==
  [][pc = "loop_check" =>
       IF last_pass \/ num_new_outliers = 0
         THEN pc' = "write_back"
         ELSE \/ pc' = "pass_entry" /\ pass' = pass + 1
              \/ pc' = "arg_error"]_vars

\* The loop ended early, before the final pass.
C4_Witness ==
  /\ pc = "write_back"
  /\ pass < opt.num_ba_passes - 1
  /\ hist.update_calls > 1

\* C5 (as claimed): in a multi-pass run, whenever after a pass the number of
\* points not in the outlier set is below min_matches, the run aborts: it
\* neither runs another pass nor finishes normally.
C5_Original ==
  (/\ opt.num_ba_passes > 1
   /\ \/ pc \in {"write_back", "done"}
      \/ pc = "pass_entry" /\ pass > 0)
    => remaining_points >= opt.min_matches

\* C5 (amended): in a multi-pass run, whenever after a pass the number of
\* points not in the outlier set is below min_matches, the run aborts,
\* unless the pass was not the final one and added no outlier: then the
\* loop ends before the count is tested.
C5_AbortWhenTooFew ==
  [][(/\ pc = "loop_check"
      /\ opt.num_ba_passes > 1
      /\ remaining_points < opt.min_matches
      /\ ~(~last_pass /\ num_new_outliers = 0))
       => pc' = "arg_error" /\ err' = "too_few_points"]_vars

\* The run has aborted after a pass that left too few points.
C5_Witness ==
  /\ pc = "arg_error"
  /\ err = "too_few_points"
  /\ num_new_outliers > 0
  /\ remaining_points < opt.min_matches

\* C6: in a multi-pass run, when the graph of a pass is about to be built the
\* three parameter vectors hold the values they had before the first pass,
\* and the camera-prior reference values never change.
C6_PassStartsFromOriginal ==
  /\ (pc = "build" /\ opt.num_ba_passes > 1) =>
       /\ cameras_vec = InitCamerasVec(num_cameras)
       /\ points_vec = InitPointsVec(cnet)
       /\ intrinsics_vec = InitIntrinsicsVec
  /\ orig_cameras_vec = InitCamerasVec(num_cameras)

\* A later pass is entered after a solve that changed the intrinsic scales
\* and after outliers were found.
C6_Witness ==
  /\ pc = "build"
  /\ pass >= 1
  /\ outlier_xyz # {}
  /\ \E i \in 1..num_intrinsic_params : scaled_intrinsics[i] # 1

\* The count the claim states, from the network and the options.
C7_Count ==
  2 * Cardinality({o \in {[icam |-> c, ipt |-> q] : c \in Cameras, q \in Points} :
                     o.icam \in cnet[o.ipt + 1].measures /\ o.ipt \notin outlier_xyz})
  + 3 * Cardinality({ipt \in Points : IsGcp(ipt) /\ ipt \notin outlier_xyz})
  + (IF opt.camera_weight > 0 THEN num_cameras * camera_params_n ELSE 0)
  + (IF opt.rotation_weight > 0 \/ opt.translation_weight > 0
       THEN num_cameras * camera_params_n ELSE 0)
  + 2 * Len(reference_vec)

\* The problem is the one built from the current outlier set.
GraphIsCurrent ==
  \/ pc \in {"initial_logs", "solve", "final_logs", "update_outliers"}
  \/ pc = "loop_check" /\ last_pass

\* The log is the one written for the current problem.
LogIsCurrent ==
  \/ pc = "solve" /\ first_pass
  \/ pc = "update_outliers"
  \/ pc = "loop_check" /\ last_pass

\* C7: the number of residuals of the problem equals the count expected by
\* compute_residuals, which is 2 per non-outlier observation plus 3 per
\* non-outlier GCP plus num_cameras*camera_params_n for each enabled prior
\* plus 2 per entry of reference_vec; the LogicErr is never raised.
C7_ResidualCount ==
  /\ err # "residual_count"
  /\ GraphIsCurrent =>
       LET n == C7_Count
       IN /\ Len(Evaluate) = n
          /\ num_expected_residuals(cam_residual_counts, num_gcp_residuals,
                                    reference_vec) = n

\* The graph of a second pass, with an outlier left out, a GCP, both priors
\* and a reference point.
C7_Witness ==
  /\ pc = "final_logs"
  /\ pass = 1
  /\ outlier_xyz # {}
  /\ num_gcp_residuals > 0
  /\ opt.camera_weight > 0
  /\ opt.translation_weight > 0
  /\ reference_vec # <<>>

\* The order of the residual blocks by kind.
KindRank(kind) ==
  CASE kind = "reproj" -> 1 [] kind = "gcp" -> 2 [] kind = "cam_prior" -> 3
    [] kind = "rot_trans" -> 4 [] kind = "terrain" -> 5

BlockBefore(a, b) ==
  \/ KindRank(a.kind) < KindRank(b.kind)
  \/ /\ a.kind = b.kind
     /\ CASE a.kind = "reproj" -> a.icam < b.icam \/ (a.icam = b.icam /\ a.ipt < b.ipt)
          [] a.kind = "gcp" -> a.ipt < b.ipt
          [] a.kind \in {"cam_prior", "rot_trans"} -> a.icam < b.icam
          [] OTHER -> a.ipt < b.ipt \/ (a.ipt = b.ipt /\ a.icam < b.icam)

\* The i-th (0-based) non-outlier GCP in point order.
GcpRank(ipt) ==
  Cardinality({q \in Points : IsGcp(q) /\ q \notin outlier_xyz /\ q < ipt})

ReadIsRight(r) ==
  CASE r.file = "raw_pixels" ->
         r.value.kind = "reproj" /\ r.value.icam = r.owner
    [] r.file = "raw_gcp" ->
         r.value.kind = "gcp" /\ GcpRank(r.value.ipt) = r.owner
    [] r.file = "raw_cameras" ->
         r.value.kind \in {"cam_prior", "rot_trans"} /\ r.value.icam = r.owner
    [] r.file = "reference_terrain" ->
         /\ r.value.kind = "terrain"
         /\ r.owner + 1 \in 1..Len(reference_vec)
         /\ reference_vec[r.owner + 1] = r.value.ipt

\* C8: the residual blocks are in the order reprojection (camera by camera,
\* observation order inside a camera), GCP anchors (point order), camera
\* priors (camera order), rotation/translation priors (camera order),
\* terrain; write_residual_logs reads every value as a residual of the kind
\* and owner it belongs to, and reads exactly the whole vector.
C8_ResidualOrder ==
  /\ err # "log_index"
  /\ GraphIsCurrent =>
       \A i, j \in 1..Len(problem.blocks) :
         i < j => BlockBefore(problem.blocks[i], problem.blocks[j])
  /\ LogIsCurrent =>
       LET res == Evaluate
       IN /\ residual_log.index = Len(res)
          /\ \A k \in 1..Len(residual_log.reads) :
               /\ residual_log.reads[k].value.kind # "out_of_range"
               /\ residual_log.reads[k].value = res[k]
               /\ ReadIsRight(residual_log.reads[k])

\* The final logs of a pass were written for a problem that has residuals
\* of all five kinds.
C8_Witness ==
  /\ pc = "loop_check"
  /\ \A f \in {"raw_pixels", "raw_gcp", "raw_cameras", "reference_terrain"} :
       \E k \in 1..Len(residual_log.reads) : residual_log.reads[k].file = f
  /\ opt.camera_weight > 0
  /\ opt.rotation_weight > 0
  /\ \E c \in Cameras : cam_residual_counts[c] > 1

\* C9: DENSE_SCHUR below 100 cameras, SPARSE_SCHUR from 100 to 3500,
\* ITERATIVE_SCHUR with SCHUR_JACOBI and the explicit Schur complement from
\* 3501 to 7000, ITERATIVE_SCHUR with the implicit one above 7000.
C9_SolverSizing ==
  pc = "solver_done" =>
    /\ num_cameras < 100 =>
         solver_options.linear_solver_type = "DENSE_SCHUR"
    /\ (100 <= num_cameras /\ num_cameras <= 3500) =>
         solver_options.linear_solver_type = "SPARSE_SCHUR"
    /\ (3500 < num_cameras /\ num_cameras <= 7000) =>
         /\ solver_options.linear_solver_type = "ITERATIVE_SCHUR"
         /\ solver_options.preconditioner_type = "SCHUR_JACOBI"
         /\ solver_options.use_explicit_schur_complement
    /\ num_cameras > 7000 =>
         /\ solver_options.linear_solver_type = "ITERATIVE_SCHUR"
         /\ ~solver_options.use_explicit_schur_complement

\* The options were chosen for 7001 cameras.
C9_Witness ==
  /\ pc = "solver_done"
  /\ num_cameras = 7001
  /\ solver_options.linear_solver_type = "ITERATIVE_SCHUR"

\* C10: the scales start at 1 in every pass, and at the end of the run every
\* shared intrinsic equals its value before the first pass times the scale
\* found by the last executed pass.
C10_FinalIntrinsics ==
  /\ pc \in {"initial_logs", "solve"} =>
       \A i \in 1..num_intrinsic_params : scaled_intrinsics[i] = 1
  /\ pc = "done" =>
       \A i \in 1..num_intrinsic_params :
         /\ intrinsics_vec[i] = InitIntrinsicsVec[i] * scaled_intrinsics[i]
         /\ \A c \in Cameras : model_cams[c][camera_params_n + i] = intrinsics_vec[i]

\* A run of at least two passes has ended, its last pass having found a
\* scale other than 1.
C10_Witness ==
  /\ pc = "done"
  /\ Len(hist.after_pass) >= 2
  /\ \E i \in 1..num_intrinsic_params : scaled_intrinsics[i] = 2

\* The passes so far, the current one included, that added an outlier.
GrowingPasses ==
  LET s == Append(hist.after_pass, outlier_xyz)
  IN {k \in 1..Len(s) : s[k] # (IF k = 1 THEN {} ELSE s[k - 1])}

\* Every match of every file is the pair of measures of a point that is not
\* in the outlier set.
OnlySurvivingMatches ==
  \A pr \in MatchPairs : \A k \in 1..Len(match_files[pr]) :
    \E ipt \in Points \ outlier_xyz :
      match_files[pr][k] = <<Pix(ipt, pr[1]), Pix(ipt, pr[2])>>

\* C11 (as claimed): in a multi-pass run, after each pass the match file of
\* every pair has been overwritten and holds only matches of points that are
\* not in the outlier set.
C11_Original ==
  (pc = "loop_check" /\ opt.num_ba_passes > 1) =>
    /\ hist.remove_calls = pass + 1
    /\ OnlySurvivingMatches

\* C11 (amended): in a multi-pass run, after each pass every match file holds
\* only matches of points that are not in the outlier set; the files are
\* overwritten after the passes that added an outlier (never the final
\* pass) and after no other pass.
C11_MatchFilesRewritten ==
  (pc = "loop_check" /\ opt.num_ba_passes > 1) =>
    /\ hist.remove_calls = Cardinality(GrowingPasses)
    /\ OnlySurvivingMatches

\* A pass flagged one of two matched tie points: the file was rewritten and
\* still holds a match.
C11_Witness ==
  /\ pc = "loop_check"
  /\ hist.remove_calls > 0
  /\ outlier_xyz # {}
  /\ \E pr \in MatchPairs :
       /\ match_files[pr] # <<>>
       /\ match_files[pr] # InitialMatches(cnet, 0, pr[1], pr[2])

\* C12: no camera model is written before the loop has ended; when the run
\* ends without aborting, set_cam_params has been called once per camera,
\* with the extrinsics and intrinsics the last executed pass left in the
\* vectors (nothing changes them between the solve of that pass and the
\* write).
C12_CamerasWrittenOnce ==
  /\ [](pc # "done" =>
          /\ hist.set_cam_params = 0
          /\ \A c \in Cameras : model_cams[c] = <<>>)
  /\ [](pc = "done" =>
          /\ hist.set_cam_params = num_cameras
          /\ \A c \in Cameras :
               model_cams[c] =
                 SubSeq(cameras_vec, c * camera_params_n + 1,
                        (c + 1) * camera_params_n) \o intrinsics_vec)
  /\ [][pc \notin {"pass_entry", "solve"} =>
          UNCHANGED <<cameras_vec, intrinsics_vec>>]_vars

\* The run ended by the early exit, after a solve that moved the cameras
\* and scaled the intrinsics.
C12_Witness ==
  /\ pc = "done"
  /\ pass < opt.num_ba_passes - 1
  /\ hist.update_calls > 1
  /\ \E i \in 1..Len(cameras_vec) : cameras_vec[i] # 0
  /\ intrinsics_vec # InitIntrinsicsVec

\* The cameras with a non-zero matched position, and the GCPs whose
\* triangulated and given positions are both non-zero.
UsableCameras ==
  {i \in DOMAIN main.estimated_camera_gcc : main.estimated_camera_gcc[i] # 0}
UsableGcps ==
  {i \in 1..Len(cnet) :
     cnet[i].type = "gcp" /\ main.triangulated[i] # 0 /\ main.position[i] # 0}

\* C13: the alignment to camera positions with fewer than 3 usable cameras,
\* and the alignment to GCPs with fewer than 3 usable GCPs, end in an
\* argument error; and when they do, no camera and no tie point has been
\* transformed.
C13_AlignmentRefused ==
  /\ [][(/\ pc = "align_cams"
         /\ opt.create_pinhole /\ opt.camera_position_file
         /\ Cardinality(UsableCameras) < 3)
          => pc' = "arg_error" /\ main' = main]_vars
  /\ [][(/\ pc = "align_gcp"
         /\ opt.gcp_files /\ opt.create_pinhole /\ ~opt.camera_position_file
         /\ Cardinality(UsableGcps) < 3)
          => pc' = "arg_error" /\ main' = main]_vars
  /\ [](pc = "arg_error" =>
          /\ main.transforms = 0
          /\ main.camera_center = InitCameraCenter(num_cameras)
          /\ \A i \in 1..Len(cnet) :
               cnet[i].type = "tie" => main.position[i] = InitTiePosition)

\* The alignment to GCPs was refused with two usable GCPs out of three.
C13_Witness ==
  /\ pc = "arg_error"
  /\ err = "too_few_gcp"
  /\ Cardinality(UsableGcps) = 2
  /\ Len(cnet) = 4

\* The positions at which the run has stopped with an exception.
ErrorPcs == {"arg_error", "logic_error", "io_error"}

\* The outlier rejection at the end of a pass: update_outliers,
\* remove_outliers and the test on the points that remain.
OutlierSteps == {"update_outliers", "remove_outliers", "loop_check"}

\* Some pair failed in the matching loop and a later pair was then matched.
FailedThenMatched ==
  \E k \in 1..Len(main.pairs) : \E j \in (k + 1)..Len(main.pairs) :
    main.pairs[k] \in main.failed /\ main.pairs[j] \notin main.failed

C15_EveryCostFunctionBuilds ==
  ~(pc = "arg_error" /\ err = "unknown_cost_function")

\* The coordinates of point ipt in a points vector.
CoordsOf(pts, ipt) ==
  SubSeq(pts, ipt * point_params_n + 1, (ipt + 1) * point_params_n)

\* The graph of the pass is built and the outlier set is still the one the
\* pass started with.
InsidePass == pc \in {"initial_logs", "solve", "final_logs", "update_outliers"}

\* C16: a point that is an outlier when a pass starts has no reprojection
\* and no GCP block in the graph of the pass, is not counted in
\* cam_residual_counts nor in the overlap count, and has after the solve the
\* coordinates it had when the graph construction began.
C16_OutliersLeftOut ==
  /\ [](InsidePass =>
          /\ \A ipt \in outlier_xyz :
               /\ \A k \in 1..Len(problem.blocks) :
                    problem.blocks[k].kind \in {"reproj", "gcp"}
                      => problem.blocks[k].ipt # ipt
               /\ PointBlock(ipt) \notin problem.params
               /\ ipt \notin DOMAIN problem.count_map
               /\ pc \in {"final_logs", "update_outliers"} =>
                    CoordsOf(points_vec, ipt) = CoordsOf(orig_points_vec, ipt)
          /\ \A c \in Cameras :
               cam_residual_counts[c] =
                 Cardinality({ipt \in Points \ outlier_xyz :
                                c \in cnet[ipt + 1].measures}))
  /\ [][(pc \in {"build", "initial_logs", "solve"}) =>
          (\A ipt \in outlier_xyz :
             CoordsOf(points_vec', ipt) = CoordsOf(points_vec, ipt))]_vars

\* The second pass was solved with an outlier left out, the overlap count
\* in use, and another point moved by the solver.
C16_Witness ==
  /\ pc = "final_logs"
  /\ pass = 1
  /\ outlier_xyz # {}
  /\ opt.overlap_exponent > 0
  /\ DOMAIN problem.count_map # {}
  /\ points_vec # orig_points_vec

\* C17: in every pass, the parameter block of a camera listed in
\* fixed_cameras_indices is marked constant whenever it takes part in the
\* problem, through a reprojection residual or through a prior.
C17_FixedCameraConstant ==
  InsidePass =>
    \A icam \in opt.fixed_cameras_indices \cap Cameras :
      CamBlock(icam) \in problem.params => CamBlock(icam) \in problem.constant

\* The name of intrinsic subgroup j in intrinsics_to_float.
IntrName(j) == <<"focal_length", "optical_center", "distortion_params">>[j + 1]

\* C18 as stated: for every value of intrinsics_to_float, a subgroup in the
\* problem is constant exactly when its name is not in the set.
C18_Original ==
  (InsidePass /\ opt.solve_intrinsics) =>
    \A j \in 0..2 :
      IntrBlock(j) \in problem.params =>
        (IntrBlock(j) \in problem.constant
           <=> IntrName(j) \notin opt.intrinsics_to_float)

\* C18: when intrinsics_to_float is not empty, a subgroup in the problem is
\* constant exactly when its name is not in the set, and the solve leaves
\* its values alone; when the set is empty, no subgroup is constant.
C18_FloatOnlyNamed ==
  /\ []((InsidePass /\ opt.solve_intrinsics) =>
          \A j \in 0..2 :
            IntrBlock(j) \in problem.params =>
              (IntrBlock(j) \in problem.constant
                 <=> (/\ opt.intrinsics_to_float # {}
                      /\ IntrName(j) \notin opt.intrinsics_to_float)))
  /\ [][(pc = "solve" /\ opt.solve_intrinsics /\ opt.intrinsics_to_float # {}) =>
          (\A j \in 0..2 :
             IntrName(j) \notin opt.intrinsics_to_float =>
               \A i \in IntrBlockIndices(j) :
                 scaled_intrinsics'[i] = scaled_intrinsics[i])]_vars

\* A solve moved the focal length while the optical centre was held.
C18_Witness ==
  /\ pc = "final_logs"
  /\ opt.intrinsics_to_float = {"focal_length"}
  /\ IntrBlock(1) \in problem.constant
  /\ IntrBlock(0) \in problem.params \ problem.constant
  /\ \E i \in IntrBlockIndices(0) : scaled_intrinsics[i] # 1
  /\ \A i \in IntrBlockIndices(1) : scaled_intrinsics[i] = 1

\* The mean residual of point ipt in the update_outliers call in progress
\* is greater than x (the mean is the sum of the absolute pixel errors over
\* twice the number of observations).
UpdMeanAbove(ipt, x) ==
  upd.count[ipt] > 0 /\ upd.sum[ipt] > 2 * x * upd.count[ipt]

\* min(max(e, err1), err2), e being the upper bracket of the call in progress.
UpdThreshold ==
  LET err1 == opt.remove_outliers_params[3]
      err2 == opt.remove_outliers_params[4]
      a == IF upd.e > err1 THEN upd.e ELSE err1
  IN IF a < err2 THEN a ELSE err2

\* C19: update_outliers flags a non-GCP point that was not yet an outlier
\* if and only if its mean residual is greater than min(max(e, err1), err2).
\* So a point with a mean residual of at most err1 is never flagged when
\* err1 <= err2, and a point with a mean residual above err2 always is.
C19_FlaggedIffAboveThreshold ==
  upd # NoUpd =>
    /\ outlier_xyz \ upd.outlier_xyz =
         {ipt \in Points \ upd.outlier_xyz :
            ~IsGcp(ipt) /\ UpdMeanAbove(ipt, UpdThreshold)}
    /\ opt.remove_outliers_params[3] <= opt.remove_outliers_params[4] =>
         \A ipt \in Points \ upd.outlier_xyz :
           ~UpdMeanAbove(ipt, opt.remove_outliers_params[3])
             => ipt \notin outlier_xyz
    /\ \A ipt \in Points \ upd.outlier_xyz :
         (~IsGcp(ipt) /\ UpdMeanAbove(ipt, opt.remove_outliers_params[4]))
           => ipt \in outlier_xyz

\* One point was flagged while another, whose mean residual is exactly the
\* threshold, was not.
C19_Witness ==
  /\ upd # NoUpd
  /\ opt.remove_outliers_params[3] < opt.remove_outliers_params[4]
  /\ \E a \in Points \ outlier_xyz :
       /\ ~IsGcp(a)
       /\ upd.count[a] > 0
       /\ upd.sum[a] = 2 * UpdThreshold * upd.count[a]
  /\ outlier_xyz # upd.outlier_xyz

\* C20: with heights_from_dem, the block of every non-GCP point that is not
\* an outlier and is observed is constant; the point has the DEM position
\* when the DEM covers it with a valid sample and its triangulated position
\* otherwise; a GCP is not moved by the graph construction and is constant
\* only when fix_gcp_xyz asks for it.
C20_HeightsFromDem ==
  /\ []((InsidePass /\ opt.heights_from_dem) =>
          \A ipt \in Points \ outlier_xyz :
            IF IsGcp(ipt)
              THEN PointBlock(ipt) \in problem.constant <=> opt.fix_gcp_xyz
              ELSE /\ cnet[ipt + 1].measures # {}
                     => PointBlock(ipt) \in problem.constant
                   /\ CoordsOf(points_vec, ipt) =
                        IF ipt \in opt.dem_valid
                          THEN DemXyz(ipt)
                          ELSE CoordsOf(InitPointsVec(cnet), ipt))
  /\ [][(pc = "build" /\ opt.heights_from_dem) =>
          (\A ipt \in Points :
             IsGcp(ipt) => CoordsOf(points_vec', ipt) = CoordsOf(points_vec, ipt))]_vars

\* After a solve that moved the cameras, one tie point sits at its DEM
\* position and another, which the DEM does not cover, where it was
\* triangulated.
C20_Witness ==
  /\ pc = "final_logs"
  /\ opt.heights_from_dem
  /\ cameras_vec # orig_cameras_vec
  /\ \E a \in opt.dem_valid \ outlier_xyz :
       ~IsGcp(a) /\ CoordsOf(points_vec, a) = DemXyz(a)
  /\ \E b \in Points \ (opt.dem_valid \cup outlier_xyz) :
       /\ ~IsGcp(b)
       /\ PointBlock(b) \in problem.constant
       /\ CoordsOf(points_vec, b) = CoordsOf(InitPointsVec(cnet), b)

\* The anchor blocks of point ipt in the problem.
AnchorsOf(ipt) ==
  {k \in 1..Len(problem.blocks) :
     problem.blocks[k].kind = "gcp" /\ problem.blocks[k].ipt = ipt}

\* C21: every GCP that is not an outlier has exactly one anchor block, of
\* size 3 and with the trivial loss; with fix_gcp_xyz its point block is
\* constant and the solve leaves its coordinates alone.
C21_GcpAnchors ==
  /\ [](InsidePass =>
          \A ipt \in Points \ outlier_xyz :
            IsGcp(ipt) =>
              /\ Cardinality(AnchorsOf(ipt)) = 1
              /\ \A k \in AnchorsOf(ipt) :
                   /\ problem.blocks[k].loss = "TrivialLoss"
                   /\ Len(BlockResiduals(k)) = 3
              /\ opt.fix_gcp_xyz => PointBlock(ipt) \in problem.constant)
  /\ [][(pc = "solve" /\ opt.fix_gcp_xyz) =>
          (\A ipt \in Points :
             IsGcp(ipt) => CoordsOf(points_vec', ipt) = CoordsOf(points_vec, ipt))]_vars

\* A solve moved a tie point and the cameras while a fixed GCP stayed.
C21_Witness ==
  /\ pc = "final_logs"
  /\ opt.fix_gcp_xyz
  /\ \E g \in Points :
       IsGcp(g) /\ CoordsOf(points_vec, g) = CoordsOf(InitPointsVec(cnet), g)
  /\ \E t \in Points :
       ~IsGcp(t) /\ CoordsOf(points_vec, t) # CoordsOf(InitPointsVec(cnet), t)

\* The positions in the graph of the disparity-terrain blocks of reference
\* point col and camera pair (2k, 2k+1).
TerrainBlocksOf(col, k) ==
  {b \in 1..Len(problem.blocks) :
     /\ problem.blocks[b].kind = "terrain"
     /\ problem.blocks[b].ipt = col
     /\ problem.blocks[b].icam = 2 * k + 1}

AllTerrainBlocks ==
  {b \in 1..Len(problem.blocks) : problem.blocks[b].kind = "terrain"}

LeftFailures == {"left_throw", "left_outside"}

\* C22: a disparity-terrain block of a reference point and a camera pair is
\* in the graph only if every test of the pair passed, and then once; a pair
\* whose left camera fails has no block and the pair after it is judged on
\* its own tests; reference_vec has one entry per terrain block; with a
\* reference terrain an odd number of cameras ends the run with an argument
\* error.
C22_TerrainResiduals ==
  /\ TerrainOn /\ pc = "initial_logs" =>
       /\ num_cameras % 2 = 0
       /\ \A col \in 1..MaxRefPoints, k \in 0..((num_cameras \div 2) - 1) :
            /\ TerrainBlocksOf(col, k) # {} => opt.terrain_outcomes[col][k] = "ok"
            /\ Cardinality(TerrainBlocksOf(col, k)) <= 1
            /\ opt.terrain_outcomes[col][k] \in LeftFailures =>
                 /\ TerrainBlocksOf(col, k) = {}
                 /\ (k + 1 < num_cameras \div 2
                       /\ opt.terrain_outcomes[col][k + 1] = "ok") =>
                      TerrainBlocksOf(col, k + 1) # {}
       /\ Len(reference_vec) = Cardinality(AllTerrainBlocks)
  /\ TerrainOn /\ num_cameras % 2 # 0 /\ ~CrnSizeMismatch
       /\ pc \notin {"start", "pass_entry", "build"} =>
       pc = "arg_error" /\ err = "odd_cameras"

\* The left camera of the first pair fails, the second pair passes every
\* test and has its block and its entry in reference_vec.
C22_Witness ==
  /\ pc = "initial_logs"
  /\ TerrainOn
  /\ num_cameras >= 4
  /\ opt.terrain_outcomes[1][0] \in LeftFailures
  /\ opt.terrain_outcomes[1][1] = "ok"
  /\ TerrainBlocksOf(1, 1) # {}
  /\ reference_vec # <<>>

\* apply_rigid_transform is called by the step taken from this state.
RigidCalled ==
  \/ /\ pc = "align_cams"
     /\ opt.create_pinhole /\ opt.camera_position_file
     /\ Len(main.estimated_camera_gcc) = num_cameras
     /\ Cardinality(UsableCameras) >= 3
  \/ /\ pc = "align_gcp"
     /\ opt.gcp_files /\ opt.create_pinhole /\ ~opt.camera_position_file
     /\ \A c \in 1..num_cameras : main.pinhole[c]
     /\ Cardinality(UsableGcps) >= 3

\* C23: a call of apply_rigid_transform with pinhole cameras only maps every
\* camera center and the position of every point that is not a GCP by the
\* same similarity, and leaves the position of every GCP as it was; a call
\* with a camera that is not a pinhole camera ends in an argument error.
C23_RigidTransform ==
  /\ [][(RigidCalled /\ \A c \in 1..num_cameras : main.pinhole[c]) =>
          \E tr \in TransformVals :
            /\ pc' # "arg_error"
            /\ \A c \in 1..num_cameras :
                 main'.camera_center[c] = tr[1] * main.camera_center[c] + tr[2]
            /\ \A i \in 1..Len(cnet) :
                 main'.position[i] =
                   IF cnet[i].type = "gcp" THEN main.position[i]
                   ELSE tr[1] * main.position[i] + tr[2]]_vars
  /\ [][(RigidCalled /\ \E c \in 1..num_cameras : ~main.pinhole[c]) =>
          pc' = "arg_error" /\ err' = "pinhole_expected"]_vars

\* The alignment to three GCPs was applied: the tie point and the cameras
\* have moved, the GCPs have not.
C23_Witness ==
  /\ pc = "aligned"
  /\ main.transforms = 1
  /\ Cardinality(UsableGcps) >= 3
  /\ main.position[1] # InitTiePosition
  /\ main.camera_center # InitCameraCenter(num_cameras)
  /\ \A i \in 2..Len(cnet) : main.position[i] = 4

\* The interest points of the match file written for a pair.
WrittenIps(pr) ==
  {match_files[pr].ip1[n] : n \in 1..Len(match_files[pr].ip1)}
    \cup {match_files[pr].ip2[n] : n \in 1..Len(match_files[pr].ip2)}

\* C24 as stated: every match file written by the two utilities has lists
\* of the same length, entry n of one being the match of entry n of the
\* other, and holds no interest point whose transfer to the camera failed.
C24_FailedMatchesDropped ==
  \A pr \in DOMAIN match_files :
    /\ Len(match_files[pr].ip1) = Len(match_files[pr].ip2)
    /\ \A n \in 1..Len(match_files[pr].ip1) :
         match_files[pr].ip1[n].p = match_files[pr].ip2[n].p
    /\ \A e \in WrittenIps(pr) : main.transfer[e.img][e.p] = "ok"

\* The positions in the graph of the reprojection blocks of an observation.
ReprojBlocksOf(icam, ipt) ==
  {b \in 1..Len(problem.blocks) :
     /\ problem.blocks[b].kind = "reproj"
     /\ problem.blocks[b].icam = icam
     /\ problem.blocks[b].ipt = ipt}

\* C25: an observation of a point that is not an outlier and whose scale is
\* NaN has exactly one reprojection block, whose sigma is (1,1) divided by
\* the overlap weight when there is one, and the block is counted for its
\* camera.
C25_NanSigma ==
  InsidePass =>
    /\ \A o \in opt.nan_scale :
         o[2] \notin outlier_xyz =>
           /\ Cardinality(ReprojBlocksOf(o[1], o[2])) = 1
           /\ problem.pixel_sigma[o].val = <<1, 1>>
           /\ problem.pixel_sigma[o].div =
                IF opt.overlap_exponent > 0
                     /\ Cardinality({c \in Cameras : c \in cnet[o[2] + 1].measures}) > 1
                  THEN <<Pow(Cardinality({c \in Cameras :
                                            c \in cnet[o[2] + 1].measures}) - 1,
                             opt.overlap_exponent)>>
                  ELSE <<>>
    /\ \A icam \in Cameras :
         cam_residual_counts[icam] =
           Cardinality({b \in 1..Len(problem.blocks) :
                          problem.blocks[b].kind = "reproj"
                            /\ problem.blocks[b].icam = icam})

\* A pass with the overlap weighting in which an observation with a NaN
\* scale, of a point seen by every camera, has its block.
C25_Witness ==
  /\ pc = "solve"
  /\ opt.overlap_exponent > 0
  /\ \E o \in opt.nan_scale :
       /\ o[2] \notin outlier_xyz
       /\ ReprojBlocksOf(o[1], o[2]) # {}
       /\ problem.pixel_sigma[o].div # <<>>
       /\ cam_residual_counts[o[1]] > 0

\* The passes begun so far: those that reached the end of the loop body and
\* the one in progress.
PassInProgress ==
  pc \in {"pass_entry", "build", "initial_logs", "solve", "final_logs",
          "update_outliers", "remove_outliers", "loop_check"}

PassesRun == Len(hist.after_pass) + (IF PassInProgress THEN 1 ELSE 0)

NonGcpPoints == {ipt \in Points : ~IsGcp(ipt)}

\* C26: no more than num_ba_passes passes are run; a pass that is followed
\* by another one has added a point to the outlier set, only points that
\* are not GCPs are added, so no more passes are run than there are such
\* points plus one; with num_ba_passes <= 0 the run ends in an argument
\* error before any pass.
C26_PassLoopBounded ==
  /\ opt.num_ba_passes <= 0 =>
       /\ pc \in {"start", "arg_error"}
       /\ pc = "arg_error" => err = "no_passes"
       /\ PassesRun = 0
       /\ problem = EmptyProblem
  /\ opt.num_ba_passes > 0 =>
       /\ pass <= opt.num_ba_passes
       /\ PassesRun <= opt.num_ba_passes
  /\ \A k \in 1..Len(hist.after_pass) :
       (k < Len(hist.after_pass) \/ PassInProgress) =>
         LET before == IF k = 1 THEN {} ELSE hist.after_pass[k - 1]
         IN /\ before \subseteq hist.after_pass[k]
            /\ before # hist.after_pass[k]
  /\ outlier_xyz \subseteq NonGcpPoints
  /\ PassesRun <= Cardinality(NonGcpPoints) + 1

\* A run of as many passes as there are points that are not GCPs, plus one,
\* has ended.
C26_Witness ==
  /\ pc = "done"
  /\ Len(hist.after_pass) = Cardinality(NonGcpPoints) + 1
  /\ Len(hist.after_pass) >= 3
  /\ Cardinality(outlier_xyz) >= 2

\* The observations of the points outside of a set, in the order of the
\* double loop over the cameras and their observations.
ObservationsOutside(out) ==
  SelectSeq(ObsSeq, LAMBDA o : o.ipt \notin out)

\* C27: from the construction of the graph to the evaluation of the
\* residuals by update_outliers the outlier set does not change; the walk of
\* compute_mean_residuals_at_xyz uses the set the graph was built with,
\* reads one pair for every observation of a point outside of it, in order,
\* and the pair read is the residual pair of the block of that observation.
C27_ResidualsMatchOutliers ==
  /\ [][(pc \in {"initial_logs", "solve", "final_logs"}) =>
          (outlier_xyz' = outlier_xyz /\ problem' = problem)]_vars
  /\ [][(pc = "update_outliers" /\ pc' # "logic_error") =>
          (/\ upd'.outlier_xyz = outlier_xyz
           /\ problem' = problem
           /\ LET seen == ObservationsOutside(outlier_xyz)
                  res == Evaluate
              IN /\ Len(upd'.reads) = Len(seen)
                 /\ \A k \in 1..Len(upd'.reads) :
                      LET r == upd'.reads[k]
                      IN /\ r.icam = seen[k].icam /\ r.ipt = seen[k].ipt
                         /\ \A q \in 1..PIXEL_SIZE :
                              /\ r.residual_index + q <= Len(res)
                              /\ res[r.residual_index + q].kind = "reproj"
                              /\ res[r.residual_index + q].icam = r.icam
                              /\ res[r.residual_index + q].ipt = r.ipt
                              /\ res[r.residual_index + q].comp = q - 1)]_vars
  /\ [](InsidePass =>
          \A o \in {ObsSeq[k] : k \in 1..Len(ObsSeq)} :
            (o.ipt \notin outlier_xyz) <=>
              (\E b \in 1..Len(problem.blocks) :
                 /\ problem.blocks[b].kind = "reproj"
                 /\ problem.blocks[b].icam = o.icam
                 /\ problem.blocks[b].ipt = o.ipt))

\* update_outliers has evaluated the residuals of a pass that started with
\* an outlier, and has read an observation that comes after one of that
\* outlier.
C27_Witness ==
  /\ pc \in {"remove_outliers", "loop_check"}
  /\ upd.outlier_xyz # {}
  /\ \E k \in 1..Len(upd.reads) :
       /\ upd.reads[k].residual_index > 0
       /\ \E j \in 1..Len(ObsSeq) :
            /\ ObsSeq[j].ipt \in upd.outlier_xyz
            /\ ObsSeq[j].icam <= upd.reads[k].icam
            /\ ObsSeq[j].ipt < upd.reads[k].ipt

\* The control points a match of the pair pr can have been made from.
SourcesOf(pr, match) ==
  {ipt \in Points :
     /\ ~IsGcp(ipt)
     /\ ipt \notin outlier_xyz
     /\ pr[1] \in cnet[ipt + 1].measures
     /\ pr[2] \in cnet[ipt + 1].measures
     /\ match = <<Pix(ipt, pr[1]), Pix(ipt, pr[2])>>}

\* C28: every match remove_outliers writes for a pair is the pair of
\* measures of a point that is not a GCP, is not an outlier and is measured
\* in both images, and was in the file of the pair when the call began.
\* has_left starts true, so a point without a measure in the left image is
\* not skipped and is written when the file holds its right pixel.
C28_WrittenMatches ==
  [][(pc = "remove_outliers") =>
       (\A pr \in MatchPairs : \A k \in 1..Len(match_files'[pr]) :
          /\ SourcesOf(pr, match_files'[pr][k]) # {}
          /\ \E j \in 1..Len(match_files[pr]) :
               match_files[pr][j] = match_files'[pr][k])]_vars

\* The number of zero deltas at the end of the deltas returned so far.
RECURSIVE TrailingZeros(_)
TrailingZeros(ds) ==
  IF ds = <<>> \/ ds[Len(ds)] # 0 THEN 0
  ELSE 1 + TrailingZeros(SubSeq(ds, 1, Len(ds) - 1))

\* C29: the legacy loop breaks exactly when, before an update, the
\* iterations reached max_iterations, abs_tol < 0.01, rel_tol < 1e-6 or the
\* counter exceeds 4; an update raises the counter by one when its delta is
\* 0 and resets it otherwise; so no more than five zero deltas follow one
\* another, the updates number at most max_iterations, and the loop ends.
C29_NonCeresLoop ==
  /\ [][(pc = "nonceres_check") =>
          ((pc' = "nonceres_done") <=>
             (\/ main.adjuster.iterations >= opt.max_iterations
              \/ main.adjuster.abs_tol < 10
              \/ main.adjuster.rel_tol < 10
              \/ main.adjuster.no_improvement_count > 4))]_vars
  /\ [][(pc = "nonceres_update") =>
          (main'.adjuster.no_improvement_count =
             IF main'.adjuster.overall_delta = 0
               THEN main.adjuster.no_improvement_count + 1 ELSE 0)]_vars
  /\ [](pc \in {"nonceres_check", "nonceres_update", "nonceres_done"} =>
          /\ TrailingZeros(main.adjuster.deltas) <= 5
          /\ (pc = "nonceres_update" => TrailingZeros(main.adjuster.deltas) < 5)
          /\ Len(main.adjuster.deltas) <= opt.max_iterations
          /\ main.adjuster.iterations = Len(main.adjuster.deltas))
  /\ <>(pc = "nonceres_done")

\* The loop ended after five updates in a row returned a zero delta, with
\* iterations left and both tolerances above their limits.
C29_Witness ==
  /\ pc = "nonceres_done"
  /\ main.adjuster.trigger = "unable to improve"
  /\ TrailingZeros(main.adjuster.deltas) = 5
  /\ main.adjuster.iterations < opt.max_iterations
  /\ Len(main.adjuster.deltas) > 5

\* The alignment functions called so far.
Called(f) == \E k \in 1..Len(hist.align_calls) : hist.align_calls[k] = f

\* C30: apply_rigid_transform is called at most once; with create_pinhole
\* and a camera-positions file the alignment to camera positions is called
\* and the alignment to GCPs is not; the alignment to GCPs is called exactly
\* with create_pinhole, GCP files and no camera-positions file (unless the
\* run ended before); without create_pinhole nothing changes; when the
\* alignment ends without an error check_gcp_dists has been called exactly
\* when GCP files are given, and the step that only checks changes nothing.
C30_OneAlignment ==
  /\ [](main.transforms <= 1)
  /\ [](pc # "align_cams" /\ opt.create_pinhole /\ opt.camera_position_file =>
          /\ Called("init_pinhole_model_with_camera_positions")
          /\ ~Called("init_pinhole_model_with_gcp"))
  /\ [](Called("init_pinhole_model_with_gcp") =>
          opt.create_pinhole /\ opt.gcp_files /\ ~opt.camera_position_file)
  /\ [](pc = "aligned" /\ opt.create_pinhole /\ opt.gcp_files
          /\ ~opt.camera_position_file => Called("init_pinhole_model_with_gcp"))
  /\ [][~opt.create_pinhole => main' = main]_vars
  /\ [](pc = "aligned" => (Called("check_gcp_dists") <=> opt.gcp_files))
  /\ [][(pc = "align_gcp"
          /\ ~(opt.create_pinhole /\ ~opt.camera_position_file)) =>
           main' = main]_vars

\* With create_pinhole, a camera-positions file and three usable GCPs the
\* cameras were aligned to the camera positions, the GCP alignment was not
\* called and the GCP distances were checked.
C30_Witness ==
  /\ pc = "aligned"
  /\ opt.create_pinhole /\ opt.camera_position_file /\ opt.gcp_files
  /\ Cardinality(UsableGcps) >= 3
  /\ main.transforms = 1
  /\ hist.align_calls = <<"init_pinhole_model_with_camera_positions",
                          "check_gcp_dists">>

====
